---- MODULE Spec2Model ----
(***************************************************************************)
(* A model of the nucleux reactive kernel: the Atom value cell, derived    *)
(* atoms and Store teardown, and the reference-counted Container.          *)
(*                                                                         *)
(* The program is single threaded.  Every action is one synchronous call   *)
(* made by a consumer (Container.get, Container.remove, an assignment to   *)
(* an atom's value, Store.reset) or the resumption of one suspended async  *)
(* function (Atom.hydrate, Atom.reset) from the microtask queue.  Nested   *)
(* calls (notification of subscribers, recomputation of derived atoms,     *)
(* injection, the destroy cascade) run inside the action: an operation is  *)
(* an operator from the program state to the program state, and what it    *)
(* did on the way (callbacks invoked, storage calls issued, constructors   *)
(* and destroy() run, its return value) is recorded in the state it        *)
(* returns.                                                                *)
(*                                                                         *)
(* Spec is a running application: Top, Mid and Leaf are resolved, and the  *)
(* consumer assigns atoms, resets stores and releases stores.              *)
(* SpecContainer is the registry from empty: stores are resolved and       *)
(* released in any order.  SpecAtom is the Atom on its own: two atoms      *)
(* persisted under one key, their subscribers, and a storage adapter      *)
(* whose setItem works, throws or rejects.                                 *)
(***************************************************************************)
EXTENDS Integers, Sequences, FiniteSets, TLC

\* ------------------------------------------------------------------ bounds
\* SpecContainer: the number of store instances ever constructed, the largest refCount
MaxStores == 4
MaxRefs == 2
\* the number of suspended async functions
MaxPending == 1
\* the number of constructors the call stack holds before new throws a
\* RangeError (Maximum call stack size exceeded)
MaxDepth == 3
\* SpecAtom: the number of subscriptions made
MaxSubs == 2

\* ------------------------------------------------------------------ values
\* A JavaScript value: a primitive (ref = 0) or an object with an identity
\* (ref > 0) and a content.
Num(n) == [ref |-> 0, body |-> n]
Obj(r, n) == [ref |-> r, body |-> n]
Undefined == [ref |-> 0, body |-> -1]

\* newValue === this.value
StrictEquals(a, b) == IF a.ref = 0 /\ b.ref = 0 THEN a.body = b.body ELSE a.ref = b.ref

\* fast-deep-equal: structural equality
isEqual(a, b) == (a.ref = 0) = (b.ref = 0) /\ a.body = b.body

\* the custom comparator of the derived atom: (a, b) => a % 2 === b % 2
compare(a, b) == (a.body % 2) = (b.body % 2)

\* JSON.stringify / JSON.parse of the persisted atom's values (numbers)
NoItem == "null"
stringify(v) == IF v = Undefined THEN "undefined" ELSE IF v.body = 0 THEN "0" ELSE "1"
parse(raw) == IF raw = "0" THEN Num(0) ELSE Num(1)
parses(raw) == raw \in {"0", "1"}

\* ------------------------------------------------------------------ maps
MapSet(m, k, v) == [x \in DOMAIN m \cup {k} |-> IF x = k THEN v ELSE m[x]]
MapDelete(m, k) == [x \in DOMAIN m \ {k} |-> m[x]]
SeqRemove(s, i) == SubSeq(s, 1, i - 1) \o SubSeq(s, i + 1, Len(s))
\* the position of key k in an insertion-ordered Map (0 when absent)
IndexOf(s, k) == IF \E i \in 1..Len(s) : s[i].id = k
                 THEN CHOOSE i \in 1..Len(s) : s[i].id = k ELSE 0

\* ------------------------------------------------------------------ the stores
\* Three store classes: Top injects Mid and Leaf, Mid injects Leaf.
\*   class Leaf extends Store { x = this.atom(0, {persistence: {persistKey: 'k'}}) }
\*   class Mid extends Store {
\*     leaf = this.inject(Leaf);
\*     y = this.atom({n: 0}, {memoization: {type: 'deep'}});
\*     d = this.deriveAtom([this.y, this.leaf.x], (y, x) => 2 * y.n + (x === 1 ? 1 : 0),
\*                         {type: 'custom', compare});
\*     constructor() { super(); this.watchAtom(this.leaf.x, (value, previous) => ...);
\*                              this.watchAtom(this.d, (value) => ...); }
\*   }
\*   class Top extends Store { mid = this.inject(Mid); leaf = this.inject(Leaf); }
Classes == {"Top", "Mid", "Leaf"}

\* More classes: one extends Leaf, one injects Leaf twice, two inject each
\* other and one injects itself.
\*   class Sub extends Leaf {}
\*   class Twice extends Store { first = this.inject(Leaf); second = this.inject(Leaf); }
\*   class A extends Store { b = this.inject(B); }
\*   class B extends Store { a = this.inject(A); }
\*   class Own extends Store { own = this.inject(Own); }
Constructables == Classes \cup {"Sub", "Twice", "A", "B", "Own"}

\* the store class a class extends ("Store" when it extends Store itself)
Extends(cls) == IF cls = "Sub" THEN "Leaf" ELSE "Store"
NoMemo == [type |-> "shallow", compare |-> FALSE]
NoAtom == <<0, "">>

ClassDef(cls) ==
  CASE cls \in {"Leaf", "Sub"} ->
         [injects |-> <<>>,
          atoms   |-> <<[name |-> "x", init |-> Num(0), persistKey |-> "k", memoization |-> NoMemo]>>,
          derived |-> <<>>,
          watches |-> <<>>]
    [] cls = "Mid" ->
         [injects |-> <<"Leaf">>,
          atoms   |-> <<[name |-> "y", init |-> Obj(1, 0), persistKey |-> "",
                         memoization |-> [type |-> "deep", compare |-> FALSE]]>>,
          derived |-> <<[name |-> "d", sources |-> <<[via |-> "this", name |-> "y"],
                                                     [via |-> "Leaf", name |-> "x"]>>,
                         memoization |-> [type |-> "custom", compare |-> TRUE]]>>,
          watches |-> <<[via |-> "Leaf", name |-> "x", arity |-> 2, immediate |-> FALSE],
                        [via |-> "this", name |-> "d", arity |-> 1, immediate |-> FALSE]>>]
    [] cls \in {"A", "B", "Own"} ->
         [injects |-> <<CASE cls = "A" -> "B" [] cls = "B" -> "A" [] OTHER -> "Own">>,
          atoms   |-> <<>>,
          derived |-> <<>>,
          watches |-> <<>>]
    [] cls = "Twice" ->
         [injects |-> <<"Leaf", "Leaf">>,
          atoms   |-> <<>>,
          derived |-> <<>>,
          watches |-> <<>>]
    [] OTHER ->
         [injects |-> <<"Mid", "Leaf">>,
          atoms   |-> <<>>,
          derived |-> <<>>,
          watches |-> <<>>]

\* the values a consumer assigns to an atom
InputValues(name) ==
  IF name = "x" THEN {Num(0), Num(1), Undefined}
  ELSE {Obj(2, 0), Obj(2, 1)}

\* the transformer of Mid.d: (y, x) => 2 * y.n + (x === 1 ? 1 : 0)
transformer(values) == Num(2 * values[1].body + (IF values[2] = Num(1) THEN 1 ELSE 0))

VARIABLES
  stores,        \* Container.stores: storeId -> [instance, refCount]
  insts,         \* the store instances ever constructed, by instance number
  atoms,         \* the atoms ever constructed: <<instance, field>> -> Atom
  storage,       \* localStorage: key -> item
  microtasks,    \* the suspended async functions, in resumption order
  nextSubId,     \* the next nanoid()
  adapter,       \* what storage.setItem does: "works", "throws" or "rejects"
  instance,      \* Container.instance: the Container it refers to (0: undefined)
  components,    \* the React components that called useNucleux, in mount order
  prototypes,    \* the classes whose prototype has its own getStoreDefinition
  balance        \* per storeId, since its record was created: the Container.get calls
                 \* minus the Container.remove calls that returned true

vars == <<stores, insts, atoms, storage, microtasks, nextSubId, adapter, instance,
          components, prototypes, balance>>

\* The program state as one value, threaded through the nested calls of an
\* operation.  What the operation did is recorded beside it: calls, the
\* subscriber callbacks invoked; storageOps, the storage calls issued; destroys
\* and constructed, the instances whose destroy() and constructor ran; gets and
\* removeCalls, the Container.get and Container.remove calls made; resets, the
\* Atom.reset calls made; observed, for each callback invoked by a
\* notification pass, what it finds when it is entered; depth, the number of
\* store constructors on the call stack; ret, the value the
\* call just made returned; thrown, whether an exception is propagating out of
\* the call just made.
World ==
  [stores |-> stores, insts |-> insts, atoms |-> atoms,
   storage |-> storage, microtasks |-> microtasks, nextSubId |-> nextSubId,
   adapter |-> adapter, instance |-> instance, components |-> components,
   prototypes |-> prototypes, balance |-> balance,
   calls |-> <<>>, storageOps |-> <<>>, destroys |-> <<>>, constructed |-> <<>>,
   gets |-> <<>>, removeCalls |-> <<>>, resets |-> <<>>, observed |-> <<>>,
   depth |-> 0, ret |-> 0, thrown |-> FALSE]

\* ------------------------------------------------------------------ Atom
\* Atom.shouldSkipUpdate comparing by identity whatever the memoization
shouldSkipUpdate_IdentityOnly(atom, newValue) ==
  StrictEquals(newValue, atom._value)

\* Atom.shouldSkipUpdate
shouldSkipUpdate(atom, newValue) ==
  LET m == atom.memoization
  IN  IF m.type = "deep" THEN isEqual(newValue, atom._value)
      ELSE IF m.type = "custom"
           THEN (IF m.compare THEN compare(newValue, atom._value)
                 ELSE StrictEquals(newValue, atom._value))
      ELSE StrictEquals(newValue, atom._value)

\* storage.setItem(persistKey, item): the write is made, or the call throws
\* (localStorage over its quota), or it returns a promise that rejects
setItem(w, key, item) ==
  LET w1 == [w EXCEPT !.storageOps = Append(@, [op |-> "setItem", key |-> key, item |-> item])]
  IN  IF w.adapter = "works" THEN [w1 EXCEPT !.storage[key] = item]
      ELSE IF w.adapter = "throws" THEN [w1 EXCEPT !.thrown = TRUE]
      ELSE w1

\* storage.removeItem(persistKey) on localStorage
removeItem(w, key) ==
  [w EXCEPT !.storage[key] = NoItem,
            !.storageOps = Append(@, [op |-> "removeItem", key |-> key, item |-> NoItem])]

\* getDerivedValue of Store.deriveAtom: the transformer on the sources' values
getDerivedValue(w, sourceAtoms) ==
  transformer([i \in 1..Len(sourceAtoms) |-> w.atoms[sourceAtoms[i]]._value])

RECURSIVE setValue(_, _, _)
RECURSIVE notifySubscribers(_, _, _, _, _)

\* computedValueCallback storing the recomputed value and notifying without
\* asking the derived atom's comparator
computedValueCallback_Unconditional(w, callback) ==
  LET newComputedValue == getDerivedValue(w, callback.sources)
      previousValue == w.atoms[callback.target]._value
  IN  notifySubscribers([w EXCEPT !.atoms[callback.target]._value = newComputedValue],
                        callback.target, newComputedValue, previousValue, 1)

\* computedValueCallback storing the recomputed value without notifying the
\* derived atom's subscribers
computedValueCallback_Silent(w, callback) ==
  LET newComputedValue == getDerivedValue(w, callback.sources)
  IN  IF shouldSkipUpdate(w.atoms[callback.target], newComputedValue) THEN w
      ELSE [w EXCEPT !.atoms[callback.target]._value = newComputedValue]

\* computedValueCallback of Store.deriveAtom
computedValueCallback(w, callback) ==
  setValue(w, callback.target, getDerivedValue(w, callback.sources))

\* one subscriber.callback(...) call of Atom.notifySubscribers.  A callback
\* of kind "derive" is the computedValueCallback of a derived atom, one of
\* kind "assign" is a consumer's (value) => { if (value === undefined) atom.value = 0 }
\* on the atom it is subscribed to, the others do not touch the program.
invoke(w, a, subscriber, newValue, previousValue) ==
  LET two == subscriber.callback.arity = 2
      w1  == [w EXCEPT !.calls = Append(@,
                [id |-> subscriber.id, atom |-> a, callback |-> subscriber.callback,
                 value |-> newValue, hasPrevious |-> two,
                 previous |-> IF two THEN previousValue ELSE Undefined]),
                       !.observed = Append(@,
                [id |-> subscriber.id, atom |-> a, value |-> w.atoms[a]._value,
                 storageOps |-> w.storageOps, atoms |-> w.atoms])]
  IN  IF subscriber.callback.throws THEN [w1 EXCEPT !.thrown = TRUE]
      ELSE IF subscriber.callback.kind = "derive"
      THEN computedValueCallback(w1, subscriber.callback)
      ELSE IF subscriber.callback.kind = "assign" /\ newValue = Undefined
      THEN setValue(w1, subscriber.callback.target, Num(0))
      ELSE w1

\* catch (error) { console.error(...) }: the exception stops propagating
catch(w) == [w EXCEPT !.thrown = FALSE]

\* Atom.notifySubscribers without the try/catch around the callback
notifySubscribers_NoCatch(w, a, newValue, previousValue, i) ==
  IF i > Len(w.atoms[a].subscribers) THEN w
  ELSE LET w1 == invoke(w, a, w.atoms[a].subscribers[i], newValue, previousValue)
       IN  IF w1.thrown THEN w1
           ELSE notifySubscribers(w1, a, newValue, previousValue, i + 1)

\* Atom.notifySubscribers, from the i-th entry of the subscribers Map
notifySubscribers(w, a, newValue, previousValue, i) ==
  IF i > Len(w.atoms[a].subscribers) THEN w
  ELSE notifySubscribers(catch(invoke(w, a, w.atoms[a].subscribers[i], newValue, previousValue)),
                         a, newValue, previousValue, i + 1)

\* the setter reading previousValue after it has stored newValue
setValue_StalePrevious(w, a, newValue) ==
  IF shouldSkipUpdate(w.atoms[a], newValue) THEN w
  ELSE LET w1 == [w EXCEPT !.atoms[a]._value = newValue]
           previousValue == w1.atoms[a]._value
           w2 == IF newValue # Undefined /\ w1.atoms[a].persistence # ""
                 THEN setItem(w1, w1.atoms[a].persistence, stringify(newValue))
                 ELSE w1
       IN  IF w2.thrown THEN w2
           ELSE notifySubscribers(w2, a, newValue, previousValue, 1)

\* the setter notifying before it stores and persists the new value
setValue_NotifiesFirst(w, a, newValue) ==
  IF shouldSkipUpdate(w.atoms[a], newValue) THEN w
  ELSE LET previousValue == w.atoms[a]._value
           w1 == notifySubscribers(w, a, newValue, previousValue, 1)
           w2 == [w1 EXCEPT !.atoms[a]._value = newValue]
       IN  IF newValue # Undefined /\ w2.atoms[a].persistence # ""
           THEN setItem(w2, w2.atoms[a].persistence, stringify(newValue))
           ELSE w2

\* the setter writing undefined to the storage like any other value
setValue_PersistsUndefined(w, a, newValue) ==
  IF shouldSkipUpdate(w.atoms[a], newValue) THEN w
  ELSE LET previousValue == w.atoms[a]._value
           w1 == [w EXCEPT !.atoms[a]._value = newValue]
           w2 == IF w1.atoms[a].persistence # ""
                 THEN setItem(w1, w1.atoms[a].persistence, stringify(newValue))
                 ELSE w1
       IN  IF w2.thrown THEN w2
           ELSE notifySubscribers(w2, a, newValue, previousValue, 1)

\* Atom: set value(newValue)
setValue(w, a, newValue) ==
  IF shouldSkipUpdate(w.atoms[a], newValue) THEN w
  ELSE LET previousValue == w.atoms[a]._value
           w1 == [w EXCEPT !.atoms[a]._value = newValue]
           w2 == IF newValue # Undefined /\ w1.atoms[a].persistence # ""
                 THEN setItem(w1, w1.atoms[a].persistence, stringify(newValue))
                 ELSE w1
       IN  IF w2.thrown THEN w2
           ELSE notifySubscribers(w2, a, newValue, previousValue, 1)

\* Atom.hydrate up to its await: storage.getItem is called, the rest is suspended
hydrate(w, a) ==
  LET key == w.atoms[a].persistence
  IN  IF key = "" THEN w
      ELSE [w EXCEPT !.storageOps = Append(@, [op |-> "getItem", key |-> key, item |-> w.storage[key]]),
                     !.microtasks = Append(@, [kind |-> "hydrate", atom |-> a,
                                               raw |-> w.storage[key], resetValue |-> FALSE])]

\* Atom.hydrate seeding the storage with the initial value
hydrateResume_SeedsInitial(w, a, rawPersistedValue) ==
  IF rawPersistedValue # NoItem /\ rawPersistedValue # ""
  THEN (IF parses(rawPersistedValue) THEN catch(setValue(w, a, parse(rawPersistedValue)))
        ELSE w)
  ELSE catch(setItem(w, w.atoms[a].persistence, stringify(w.atoms[a]._initialValue)))

\* Atom.hydrate taking the persisted value for the initial value as well
hydrateResume_RebasesInitial(w, a, rawPersistedValue) ==
  IF rawPersistedValue # NoItem /\ rawPersistedValue # ""
  THEN (IF parses(rawPersistedValue)
        THEN catch(setValue([w EXCEPT !.atoms[a]._initialValue = parse(rawPersistedValue)],
                            a, parse(rawPersistedValue)))
        ELSE w)
  ELSE catch(setItem(w, w.atoms[a].persistence, stringify(w.atoms[a]._value)))

\* Atom.hydrate seeding the storage whatever it read
hydrateResume_AlwaysSeeds(w, a, rawPersistedValue) ==
  catch(setItem(w, w.atoms[a].persistence, stringify(w.atoms[a]._value)))

\* Atom.hydrate after its await; an exception that leaves the async function
\* rejects a promise nobody holds
hydrateResume(w, a, rawPersistedValue) ==
  IF rawPersistedValue # NoItem /\ rawPersistedValue # ""
  THEN (IF parses(rawPersistedValue) THEN catch(setValue(w, a, parse(rawPersistedValue)))
        ELSE w)
  ELSE catch(setItem(w, w.atoms[a].persistence, stringify(w.atoms[a]._value)))

\* new Atom(initialValue, options)
newAtom(w, a, initialValue, persistKey, memoization) ==
  hydrate([w EXCEPT !.atoms = MapSet(@, a,
             [_value |-> initialValue, _initialValue |-> initialValue, subscribers |-> <<>>,
              persistence |-> persistKey, memoization |-> memoization])], a)

\* Atom.subscribe calling the callback whatever immediate says
subscribe_AlwaysImmediate(w, a, callback, immediate) ==
  LET subId == w.nextSubId
      w1 == [w EXCEPT !.nextSubId = @ + 1,
                      !.atoms[a].subscribers = Append(@, [id |-> subId, callback |-> callback])]
      w2 == [w1 EXCEPT !.calls = Append(@,
               [id |-> subId, atom |-> a, callback |-> callback,
                value |-> w1.atoms[a]._value, hasPrevious |-> FALSE, previous |-> Undefined]),
                       !.thrown = callback.throws]
  IN  IF w2.thrown THEN w2 ELSE [w2 EXCEPT !.ret = subId]

\* Atom.subscribe; ret is the subscription id
subscribe(w, a, callback, immediate) ==
  LET subId == w.nextSubId
      w1 == [w EXCEPT !.nextSubId = @ + 1,
                      !.atoms[a].subscribers = Append(@, [id |-> subId, callback |-> callback])]
      w2 == IF immediate
            THEN [w1 EXCEPT !.calls = Append(@,
                    [id |-> subId, atom |-> a, callback |-> callback,
                     value |-> w1.atoms[a]._value, hasPrevious |-> FALSE, previous |-> Undefined]),
                            !.thrown = callback.throws]
            ELSE w1
  IN  IF w2.thrown THEN w2 ELSE [w2 EXCEPT !.ret = subId]

\* Atom.unsubscribe answering for the entry without deleting it
unsubscribe_KeepsEntry(w, a, subId) ==
  [w EXCEPT !.ret = IndexOf(w.atoms[a].subscribers, subId) # 0]

\* Atom.unsubscribe; ret is the boolean returned
unsubscribe(w, a, subId) ==
  LET i == IndexOf(w.atoms[a].subscribers, subId)
  IN  IF i = 0 THEN [w EXCEPT !.ret = FALSE]
      ELSE [w EXCEPT !.atoms[a].subscribers = SeqRemove(@, i), !.ret = TRUE]

\* Atom.reset notifying only when the reset changes the value
resetResume_SkipsWhenEqual(w, a, resetValue) ==
  IF resetValue /\ ~shouldSkipUpdate(w.atoms[a], w.atoms[a]._initialValue)
  THEN LET previousValue == w.atoms[a]._value
           w1 == [w EXCEPT !.atoms[a]._value = w.atoms[a]._initialValue]
       IN  notifySubscribers(w1, a, w1.atoms[a]._initialValue, previousValue, 1)
  ELSE w

\* Atom.reset after its await (or without one): the value part
resetResume(w, a, resetValue) ==
  IF resetValue
  THEN LET previousValue == w.atoms[a]._value
           w1 == [w EXCEPT !.atoms[a]._value = w.atoms[a]._initialValue]
       IN  notifySubscribers(w1, a, w1.atoms[a]._initialValue, previousValue, 1)
  ELSE w

\* Atom.reset is entered with const {resetValue = true, clearPersisted = true} = options
called(w, a, resetValue, clearPersisted) ==
  [w EXCEPT !.resets = Append(@, [atom |-> a, resetValue |-> resetValue,
                                  clearPersisted |-> clearPersisted])]

\* Atom.reset clearing the persisted entry whatever clearPersisted says
reset_AlwaysClears(w, a, resetValue, clearPersisted) ==
  LET w0 == called(w, a, resetValue, clearPersisted)
  IN  IF w0.atoms[a].persistence # ""
      THEN LET w1 == removeItem(w0, w0.atoms[a].persistence)
           IN  [w1 EXCEPT !.microtasks = Append(@, [kind |-> "reset", atom |-> a,
                                                    raw |-> NoItem, resetValue |-> resetValue])]
      ELSE resetResume(w0, a, resetValue)

\* Atom.reset(options) up to its await
reset(w, a, resetValue, clearPersisted) ==
  LET w0 == called(w, a, resetValue, clearPersisted)
  IN  IF clearPersisted /\ w0.atoms[a].persistence # ""
      THEN LET w1 == removeItem(w0, w0.atoms[a].persistence)
           IN  [w1 EXCEPT !.microtasks = Append(@, [kind |-> "reset", atom |-> a,
                                                    raw |-> NoItem, resetValue |-> resetValue])]
      ELSE resetResume(w0, a, resetValue)

\* ------------------------------------------------------------------ Store, Injectable, Container
\* new Container() with a constructor that does not look at Container.instance
newContainer_WithoutCheck(w) ==
  [w EXCEPT !.instance = @ + 1, !.ret = w.instance + 1]

\* new Container(): the constructor; the Containers are numbered in the order
\* of their construction and ret is the one constructed
newContainer(w) ==
  IF w.instance # 0 THEN [w EXCEPT !.thrown = TRUE]
  ELSE [w EXCEPT !.instance = 1, !.ret = 1]

\* Container.getInstance; ret is the Container
getInstance(w) == [w EXCEPT !.ret = w.instance]

\* generateStoreDefinition(storeClass): the nanoid() it draws is named after
\* the class it is drawn for (a class has a definition generated at most once)
generateStoreDefinition(storeClass) == [storeId |-> storeClass, storeClass |-> storeClass]

RECURSIVE PrototypeWith(_, _)
\* 'getStoreDefinition' in store.prototype: the first prototype of the chain
\* of the class that has the property ("Store" when none has)
PrototypeWith(w, cls) ==
  IF cls = "Store" \/ cls \in w.prototypes THEN cls ELSE PrototypeWith(w, Extends(cls))

\* Container.getStoreDefinition; ret is the definition.  It is generated on the
\* first call and cached on the class's prototype.
getStoreDefinition(w, store) ==
  LET holder == PrototypeWith(w, store)
  IN  IF holder # "Store" THEN [w EXCEPT !.ret = generateStoreDefinition(holder)]
      ELSE [w EXCEPT !.prototypes = @ \cup {store}, !.ret = generateStoreDefinition(store)]

\* the atom a store reaches as this.<name> or this.<via>.<name>
AtomRef(w, self, via, name) ==
  IF via = "this" THEN <<self, name>> ELSE <<w.insts[self].fields[via], name>>

\* Store.watchAtom
watchAtom(w, self, a, callback, immediate) ==
  LET w1 == subscribe(w, a, callback, immediate)
  IN  IF w1.thrown THEN w1
      ELSE [w1 EXCEPT !.insts[self].subscriptions = Append(@, [id |-> w1.ret, atom |-> a])]

RECURSIVE watchSources(_, _, _, _, _)
\* sourceAtoms.forEach(atom => this.watchAtom(atom, computedValueCallback))
watchSources(w, self, sourceAtoms, callback, i) ==
  IF i > Len(sourceAtoms) THEN w
  ELSE watchSources(watchAtom(w, self, sourceAtoms[i], callback, FALSE),
                    self, sourceAtoms, callback, i + 1)

\* Store.deriveAtom
deriveAtom(w, self, name, sourceAtoms, memoization) ==
  LET derivedAtom == <<self, name>>
      w1 == newAtom(w, derivedAtom, getDerivedValue(w, sourceAtoms), "", memoization)
  IN  watchSources(w1, self, sourceAtoms,
                   [kind |-> "derive", owner |-> self, arity |-> 0, throws |-> FALSE,
                    target |-> derivedAtom, sources |-> sourceAtoms], 1)

RECURSIVE get(_, _)
RECURSIVE remove(_, _, _)

\* <field> = this.inject(store): the field is assigned what inject returned,
\* unless it threw
assigned(w, self, store) ==
  IF w.thrown THEN w ELSE [w EXCEPT !.insts[self].fields = MapSet(@, store, w.ret)]

\* Injectable.inject
inject(w, self, store) ==
  LET w1 == getStoreDefinition(w, store)
      storeDefinition == w1.ret
      i  == IndexOf(w1.insts[self].injectedStores, storeDefinition.storeId)
      entry == [id |-> storeDefinition.storeId, storeClass |-> storeDefinition.storeClass]
      w2 == [w1 EXCEPT !.insts[self].injectedStores =
                          IF i = 0 THEN Append(@, entry) ELSE [@ EXCEPT ![i] = entry]]
  IN  assigned(get(w2, store), self, store)

RECURSIVE injectAll(_, _, _, _)
RECURSIVE atomAll(_, _, _, _)
RECURSIVE deriveAll(_, _, _, _)
RECURSIVE watchAll(_, _, _, _)

\* the field initialisers <field> = this.inject(<Class>)
injectAll(w, self, injects, i) ==
  IF i > Len(injects) \/ w.thrown THEN w
  ELSE injectAll(inject(w, self, injects[i]), self, injects, i + 1)

\* the field initialisers <field> = this.atom(init, options): Store.atom
atomAll(w, self, defs, i) ==
  IF i > Len(defs) THEN w
  ELSE atomAll(newAtom(w, <<self, defs[i].name>>, defs[i].init, defs[i].persistKey,
                       defs[i].memoization), self, defs, i + 1)

\* the field initialisers <field> = this.deriveAtom(sources, transformer, memoization)
deriveAll(w, self, defs, i) ==
  IF i > Len(defs) THEN w
  ELSE deriveAll(deriveAtom(w, self, defs[i].name,
                            [j \in 1..Len(defs[i].sources) |->
                               AtomRef(w, self, defs[i].sources[j].via, defs[i].sources[j].name)],
                            defs[i].memoization), self, defs, i + 1)

\* the constructor body: this.watchAtom(atom, callback, immediate)
watchAll(w, self, defs, i) ==
  IF i > Len(defs) THEN w
  ELSE watchAll(watchAtom(w, self, AtomRef(w, self, defs[i].via, defs[i].name),
                          [kind |-> "watch", owner |-> self, arity |-> defs[i].arity,
                           throws |-> FALSE, target |-> NoAtom, sources |-> <<>>], defs[i].immediate),
                self, defs, i + 1)

\* the field initialisers that make atoms and the constructor body, unless an
\* inject threw
initialised(w, self, def) ==
  IF w.thrown THEN w
  ELSE watchAll(deriveAll(atomAll(w, self, def.atoms, 1), self, def.derived, 1),
                self, def.watches, 1)

\* the constructor returns (or the exception leaves it)
constructed(w, self) ==
  IF w.thrown THEN [w EXCEPT !.depth = @ - 1]
  ELSE [w EXCEPT !.constructed = Append(@, self), !.ret = self, !.depth = @ - 1]

\* new storeClass(): the constructors of Injectable and Store, the field
\* initialisers and the constructor body; ret is the instance.  A constructor
\* entered with the call stack full throws.
construct(w, storeClass) ==
  IF w.depth >= MaxDepth THEN [w EXCEPT !.thrown = TRUE]
  ELSE LET self == Len(w.insts) + 1
           def  == ClassDef(storeClass)
           w0 == [w EXCEPT !.insts = Append(@, [cls |-> storeClass, subscriptions |-> <<>>,
                                                injectedStores |-> <<>>, fields |-> <<>>,
                                                destroyed |-> FALSE]),
                           !.depth = @ + 1]
       IN  constructed(initialised(injectAll(w0, self, def.injects, 1), self, def), self)

\* Container.instantiate counting the record's creation as a reference
instantiate_CountsCreation(w, storeDefinition) ==
  IF storeDefinition.storeId \in DOMAIN w.stores THEN w
  ELSE LET w1 == construct(w, storeDefinition.storeClass)
       IN  [w1 EXCEPT !.stores = MapSet(@, storeDefinition.storeId,
                                        [instance |-> w1.ret, refCount |-> 1]),
                      !.balance[storeDefinition.storeId] = 0]

\* this.stores.set(storeId, {instance: <the new instance>, refCount: 0}),
\* unless the constructor threw
recorded(w, storeDefinition) ==
  IF w.thrown THEN w
  ELSE [w EXCEPT !.stores = MapSet(@, storeDefinition.storeId,
                                   [instance |-> w.ret, refCount |-> 0]),
                 !.balance[storeDefinition.storeId] = 0]

\* Container.instantiate
instantiate(w, storeDefinition) ==
  IF storeDefinition.storeId \in DOMAIN w.stores THEN w
  ELSE recorded(construct(w, storeDefinition.storeClass), storeDefinition)

\* Container.get constructing the store on every call
get_AlwaysConstructs(w, store) ==
  LET w1 == getStoreDefinition(w, store)
      storeDefinition == w1.ret
      known == storeDefinition.storeId \in DOMAIN w1.stores
      w2 == construct(w1, storeDefinition.storeClass)
      storeRecord == [instance |-> w2.ret,
                      refCount |-> IF known THEN w2.stores[storeDefinition.storeId].refCount
                                   ELSE 0]
  IN  [w2 EXCEPT !.stores = MapSet(@, storeDefinition.storeId,
                                   [storeRecord EXCEPT !.refCount = @ + 1]),
                 !.balance[storeDefinition.storeId] = IF known THEN @ + 1 ELSE 1,
                 !.gets = Append(@, [cls |-> store, ret |-> storeRecord.instance]),
                 !.ret = storeRecord.instance]

\* Container.get; ret is the instance
get(w, store) ==
  LET w1 == getStoreDefinition(w, store)
      storeDefinition == w1.ret
      w2 == IF storeDefinition.storeId \notin DOMAIN w1.stores
            THEN instantiate(w1, storeDefinition) ELSE w1
      storeRecord == w2.stores[storeDefinition.storeId]
  IN  IF w2.thrown THEN w2
      ELSE [w2 EXCEPT !.stores = MapSet(@, storeDefinition.storeId,
                                        [storeRecord EXCEPT !.refCount = @ + 1]),
                      !.balance[storeDefinition.storeId] = @ + 1,
                      !.gets = Append(@, [cls |-> store, ret |-> storeRecord.instance]),
                      !.ret = storeRecord.instance]

\* the loop of Store.destroy clearing this.subscriptions without unsubscribing
unsubscribeAll_OnlyClears(w, self) ==
  [w EXCEPT !.insts[self].subscriptions = <<>>]

RECURSIVE unsubscribeAll(_, _)
\* the loop of Store.destroy over this.subscriptions
unsubscribeAll(w, self) ==
  IF w.insts[self].subscriptions = <<>> THEN w
  ELSE LET s  == Head(w.insts[self].subscriptions)
           w1 == unsubscribe(w, s.atom, s.id)
       IN  unsubscribeAll([w1 EXCEPT !.insts[self].subscriptions = Tail(@)], self)

RECURSIVE removeInjected(_, _, _)
\* Injectable.destroy: the loop over this.injectedStores
removeInjected(w, self, i) ==
  IF i > Len(w.insts[self].injectedStores) THEN w
  ELSE removeInjected(remove(w, w.insts[self].injectedStores[i].storeClass, self), self, i + 1)

\* Store.destroy without super.destroy()
destroy_WithoutSuper(w, self) ==
  LET w1 == unsubscribeAll(w, self)
  IN  [w1 EXCEPT !.insts[self].destroyed = TRUE, !.destroys = Append(@, self)]

\* Store.destroy
destroy(w, self) ==
  LET w1 == unsubscribeAll(w, self)
      w2 == removeInjected(w1, self, 1)
  IN  [w2 EXCEPT !.insts[self].destroyed = TRUE, !.destroys = Append(@, self)]

\* what Container.remove returns, recorded with its caller
returned(w, store, caller, value) ==
  LET id == getStoreDefinition(w, store).ret.storeId
  IN  [w EXCEPT !.ret = value,
                !.removeCalls = Append(@, [cls |-> store, by |-> caller, ret |-> value]),
                !.balance[id] = IF id \in DOMAIN w.stores /\ value THEN @ - 1 ELSE 0]

\* Container.remove taking the last reference for one more to drop
remove_OffByOne(w, store, caller) ==
  LET w1 == getStoreDefinition(w, store)
      storeDefinition == w1.ret
      id == storeDefinition.storeId
  IN  IF id \notin DOMAIN w1.stores THEN returned(w1, store, caller, FALSE)
      ELSE LET storeRecord == w1.stores[id]
           IN  IF storeRecord.refCount > 0
               THEN returned([w1 EXCEPT !.stores[id].refCount = storeRecord.refCount - 1],
                             store, caller, TRUE)
               ELSE LET w2 == destroy(w1, storeRecord.instance)
                    IN  returned([w2 EXCEPT !.stores = MapDelete(@, id)],
                                 store, caller, id \in DOMAIN w2.stores)

\* Container.remove destroying the instance and leaving its record in the registry
remove_KeepsRecord(w, store, caller) ==
  LET w1 == getStoreDefinition(w, store)
      storeDefinition == w1.ret
      id == storeDefinition.storeId
  IN  IF id \notin DOMAIN w1.stores THEN returned(w1, store, caller, FALSE)
      ELSE LET storeRecord == w1.stores[id]
           IN  IF storeRecord.refCount > 1
               THEN returned([w1 EXCEPT !.stores[id].refCount = storeRecord.refCount - 1],
                             store, caller, TRUE)
               ELSE returned(destroy(w1, storeRecord.instance), store, caller, TRUE)

\* Container.remove releasing a store that has no record as if it had one
remove_WithoutRecordCheck(w, store, caller) ==
  LET w1 == getStoreDefinition(w, store)
      storeDefinition == w1.ret
      id == storeDefinition.storeId
  IN  IF id \notin DOMAIN w1.stores THEN returned(w1, store, caller, TRUE)
      ELSE LET storeRecord == w1.stores[id]
           IN  IF storeRecord.refCount > 1
               THEN returned([w1 EXCEPT !.stores[id].refCount = storeRecord.refCount - 1],
                             store, caller, TRUE)
               ELSE LET w2 == destroy(w1, storeRecord.instance)
                    IN  returned([w2 EXCEPT !.stores = MapDelete(@, id)],
                                 store, caller, id \in DOMAIN w2.stores)

\* Container.remove; caller is the instance whose destroy() calls it (0: a consumer)
remove(w, store, caller) ==
  LET w1 == getStoreDefinition(w, store)
      storeDefinition == w1.ret
      id == storeDefinition.storeId
  IN  IF id \notin DOMAIN w1.stores THEN returned(w1, store, caller, FALSE)
      ELSE LET storeRecord == w1.stores[id]
           IN  IF storeRecord.refCount > 1
               THEN returned([w1 EXCEPT !.stores[id].refCount = storeRecord.refCount - 1],
                             store, caller, TRUE)
               ELSE LET w2 == destroy(w1, storeRecord.instance)
                    IN  returned([w2 EXCEPT !.stores = MapDelete(@, id)],
                                 store, caller, id \in DOMAIN w2.stores)

\* the own fields of a store that hold atoms, in the order for..in visits them
AtomKeys(cls) ==
  [i \in 1..Len(ClassDef(cls).atoms) |-> ClassDef(cls).atoms[i].name]
    \o [i \in 1..Len(ClassDef(cls).derived) |-> ClassDef(cls).derived[i].name]

RECURSIVE resetAll_IgnoresAtomKeys(_, _, _, _, _, _)
\* the loop of Store.reset without the atomKeys filter
resetAll_IgnoresAtomKeys(w, self, resetValues, clearPersisted, atomKeys, i) ==
  LET keys == AtomKeys(w.insts[self].cls)
  IN  IF i > Len(keys) THEN w
      ELSE resetAll_IgnoresAtomKeys(reset(w, <<self, keys[i]>>, resetValues, clearPersisted),
                                    self, resetValues, clearPersisted, atomKeys, i + 1)

RECURSIVE resetAll(_, _, _, _, _, _)
\* the loop of Store.reset; atomKeys.given tells whether options.atomKeys is set
resetAll(w, self, resetValues, clearPersisted, atomKeys, i) ==
  LET keys == AtomKeys(w.insts[self].cls)
  IN  IF i > Len(keys) THEN w
      ELSE IF atomKeys.given /\ keys[i] \notin atomKeys.names
           THEN resetAll(w, self, resetValues, clearPersisted, atomKeys, i + 1)
           ELSE resetAll(reset(w, <<self, keys[i]>>, resetValues, clearPersisted),
                         self, resetValues, clearPersisted, atomKeys, i + 1)

\* Store.reset(options), up to its await
storeReset(w, self, resetValues, clearPersisted, atomKeys) ==
  resetAll(w, self, resetValues, clearPersisted, atomKeys, 1)

\* the options object without atomKeys
NoKeys == [given |-> FALSE, names |-> {}]

\* Store.clearPersistedData, up to its await
clearPersistedData(w, self) == storeReset(w, self, FALSE, TRUE, NoKeys)

\* Store.resetValues, up to its await
resetValues(w, self) == storeReset(w, self, TRUE, FALSE, NoKeys)

\* ------------------------------------------------------------------ getStoreProxy
\* the methods of Store, which autoBind makes own properties of the instance
Methods == {"reset", "clearPersistedData", "resetValues", "destroy"}

\* the private fields of Store and Injectable
PrivateFields == {"subscriptions", "injectedStores", "storeContainer"}

\* Object.prototype.hasOwnProperty.call(storeInstance, key)
hasOwnProperty(w, self, key) ==
  \/ key \in Methods \cup PrivateFields
  \/ key \in DOMAIN w.insts[self].fields
  \/ \E i \in 1..Len(AtomKeys(w.insts[self].cls)) : AtomKeys(w.insts[self].cls)[i] = key

\* isAtom(storeMember) && storeMember instanceof Atom
isAtom(w, self, key) == <<self, key>> \in DOMAIN w.atoms

\* what a read through the proxy returns: a value, or a bound method
Plain(v) == [kind |-> "value", value |-> v, method |-> ""]
Bound(key) == [kind |-> "function", value |-> Undefined, method |-> key]

\* the get trap of getStoreProxy(storeInstance, isServerSnapshot); ret is what
\* the read returns
proxyGet(w, self, key, isServerSnapshot) ==
  IF hasOwnProperty(w, self, key)
  THEN IF key \in Methods THEN [w EXCEPT !.ret = Bound(key)]
       ELSE IF isAtom(w, self, key)
            THEN [w EXCEPT !.ret = Plain(IF isServerSnapshot
                                         THEN w.atoms[<<self, key>>]._initialValue
                                         ELSE w.atoms[<<self, key>>]._value)]
            ELSE [w EXCEPT !.ret = Plain(Undefined)]
  ELSE [w EXCEPT !.ret = Plain(Undefined)]

\* a set trap that hands the value to the atom's setter
proxySet_ThroughSetter(w, self, key, value) ==
  IF isAtom(w, self, key) THEN setValue(w, <<self, key>>, value) ELSE w

\* the set trap of getStoreProxy: it warns and returns false, and the
\* assignment, made in strict mode, throws a TypeError
proxySet(w, self, key, value) == [w EXCEPT !.ret = FALSE, !.thrown = TRUE]

\* ------------------------------------------------------------------ useNucleux
\* the callback useNucleux watches every atom with:
\*   () => { proxy = getStoreProxy(storeInstance); onStoreChange(); }
HookCallback(self) ==
  [kind |-> "hook", owner |-> self, arity |-> 0, throws |-> FALSE,
   target |-> NoAtom, sources |-> <<>>]

\* the factory of useMemo in useNucleux, run by the first render of the
\* component: container.get(store); the component is recorded with its store
useNucleuxMemo(w, store) ==
  LET w1 == get(w, store)
  IN  [w1 EXCEPT !.components = Append(@, [store |-> store, storeInstance |-> w1.ret,
                                           subIds |-> {}, phase |-> "rendered"])]

\* the watcher just registered is one of the component c
registered(w, c) == [w EXCEPT !.components[c].subIds = @ \cup {w.ret}]

RECURSIVE watchEvery(_, _, _, _, _)
\* for (const key in storeInstance) storeInstance.watchAtom(potentialAtom, ..., true),
\* for the component c
watchEvery(w, c, storeInstance, keys, i) ==
  IF i > Len(keys) THEN w
  ELSE watchEvery(registered(watchAtom(w, storeInstance, <<storeInstance, keys[i]>>,
                                       HookCallback(storeInstance), TRUE), c),
                  c, storeInstance, keys, i + 1)

\* the subscribe function useNucleux hands to useSyncExternalStore, called
\* when the component is committed
useNucleuxSubscribe(w, c) ==
  watchEvery([w EXCEPT !.components[c].phase = "subscribed"], c,
             w.components[c].storeInstance, AtomKeys(w.components[c].store), 1)

\* the cleanup the subscribe function returns, called when the component
\* unmounts: container.remove(store)
useNucleuxCleanup(w, c) ==
  LET w1 == remove(w, w.components[c].store, 0)
  IN  [w1 EXCEPT !.components[c].phase = "unmounted"]

\* ------------------------------------------------------------------ the state machine
\* the program before the Container class is defined
Unloaded ==
  [stores |-> <<>>, insts |-> <<>>, atoms |-> <<>>, storage |-> [k \in {"k"} |-> NoItem],
   microtasks |-> <<>>, nextSubId |-> 1, adapter |-> "works", instance |-> 0,
   components |-> <<>>, prototypes |-> {},
   balance |-> [c \in Constructables |-> 0],
   calls |-> <<>>, storageOps |-> <<>>, destroys |-> <<>>, constructed |-> <<>>,
   gets |-> <<>>, removeCalls |-> <<>>, resets |-> <<>>, observed |-> <<>>,
   depth |-> 0, ret |-> 0, thrown |-> FALSE]

\* the program before any store is resolved: the static initialiser of
\* Container has run, private static instance: Container = new Container()
Empty ==
  LET w == newContainer(Unloaded)
  IN  [w EXCEPT !.instance = w.ret, !.ret = 0]

\* the program is in state w
Is(w) ==
  /\ stores = w.stores
  /\ insts = w.insts
  /\ atoms = w.atoms
  /\ storage = w.storage
  /\ microtasks = w.microtasks
  /\ nextSubId = w.nextSubId
  /\ adapter = w.adapter
  /\ instance = w.instance
  /\ components = w.components
  /\ prototypes = w.prototypes
  /\ balance = w.balance

\* the operation leaves the program in state w
Commit(w) ==
  /\ stores' = w.stores
  /\ insts' = w.insts
  /\ atoms' = w.atoms
  /\ storage' = w.storage
  /\ microtasks' = w.microtasks
  /\ nextSubId' = w.nextSubId
  /\ adapter' = w.adapter
  /\ instance' = w.instance
  /\ components' = w.components
  /\ prototypes' = w.prototypes
  /\ balance' = w.balance

\* a consumer calls Container.getInstance().get(store)
Get(store) ==
  LET w == get(World, store)
  IN  /\ Len(w.insts) <= MaxStores
      /\ \A c \in DOMAIN w.stores : w.stores[c].refCount <= MaxRefs
      /\ Len(w.microtasks) <= MaxPending
      /\ Commit(w)

\* a consumer calls new Container(); the error it throws is the consumer's
NewContainer == Commit(newContainer(World))

\* a consumer calls Container.getInstance().remove(store)
Remove(store) == Commit(remove(World, store, 0))

\* a store method or a consumer assigns atom.value = newValue
SetValue(a, newValue) == Commit(setValue(World, a, newValue))

\* a consumer calls store.reset(options)
StoreReset(self, options) ==
  LET w == storeReset(World, self, options.resetValues, options.clearPersisted,
                      options.atomKeys)
  IN  /\ Len(w.microtasks) <= MaxPending
      /\ Commit(w)

\* a component reads proxy[key] on getStoreProxy(storeInstance, isServerSnapshot)
ProxyGet(self, key, isServerSnapshot) == Commit(proxyGet(World, self, key, isServerSnapshot))

\* a component assigns proxy[key] = value
ProxySet(self, key, value) == Commit(proxySet(World, self, key, value))

\* a consumer calls store.clearPersistedData()
ClearPersistedData(self) ==
  LET w == clearPersistedData(World, self)
  IN  /\ Len(w.microtasks) <= MaxPending
      /\ Commit(w)

\* a consumer calls store.resetValues()
ResetValues(self) == Commit(resetValues(World, self))

\* the suspended async function t after its await
resume(w, t) ==
  IF t.kind = "hydrate" THEN hydrateResume(w, t.atom, t.raw)
  ELSE resetResume(w, t.atom, t.resetValue)

RECURSIVE Settle(_)
\* every suspended async function has resumed, the oldest first: the state in
\* which a caller that awaited the operation goes on
Settle(w) ==
  IF w.microtasks = <<>> THEN w
  ELSE Settle(resume([w EXCEPT !.microtasks = Tail(@)], Head(w.microtasks)))

\* the oldest suspended async function resumes
RunMicrotask ==
  /\ microtasks # <<>>
  /\ Commit(resume([World EXCEPT !.microtasks = Tail(@)], Head(microtasks)))

\* the atoms a store's methods assign: the ones made by this.atom
Assignable == {a \in DOMAIN atoms : a[2] \in {"x", "y"}}

\* the atomKeys a consumer passes to Store.reset: none, or one name (a field
\* of the store or not)
KeyChoices(cls) ==
  {NoKeys, [given |-> TRUE, names |-> {"nonExistent"}]}
    \cup {[given |-> TRUE, names |-> {AtomKeys(cls)[i]}] : i \in 1..Len(AtomKeys(cls))}

\* the options a consumer passes to Store.reset: reset() and reset({atomKeys})
ResetChoices(cls) ==
  {[resetValues |-> TRUE, clearPersisted |-> TRUE, atomKeys |-> k] : k \in KeyChoices(cls)}

\* the property names a component reads or assigns through the proxy of a
\* store: its fields, a method, a private field and a name it does not have
ProxyKeys(self) ==
  {AtomKeys(insts[self].cls)[i] : i \in 1..Len(AtomKeys(insts[self].cls))}
    \cup DOMAIN insts[self].fields \cup {"reset", "subscriptions", "nonExistent"}

\* A running application: a component has resolved Top (which injects Mid and
\* Leaf) and another one Leaf.
Init == Is(get(get(Empty, "Top"), "Leaf"))

Next ==
  \/ \E store \in Classes : Remove(store)
  \/ \E a \in Assignable : \E v \in InputValues(a[2]) : SetValue(a, v)
  \/ \E self \in 1..Len(insts) : \E o \in ResetChoices(insts[self].cls) : StoreReset(self, o)
  \/ \E self \in 1..Len(insts) : ClearPersistedData(self)
  \/ \E self \in 1..Len(insts) : ResetValues(self)
  \/ \E self \in 1..Len(insts) : \E key \in ProxyKeys(self) : \E isServerSnapshot \in BOOLEAN :
       ProxyGet(self, key, isServerSnapshot)
  \/ \E self \in 1..Len(insts) : \E key \in ProxyKeys(self) : \E v \in InputValues("x") :
       ProxySet(self, key, v)
  \/ RunMicrotask

Spec == Init /\ [][Next]_vars

\* The Container from empty: stores are resolved and released in any order.
InitContainer == Is(Empty)

NextContainer ==
  \/ \E store \in Classes : Get(store)
  \/ \E store \in Classes : Remove(store)
  \/ NewContainer
  \/ RunMicrotask

SpecContainer == InitContainer /\ [][NextContainer]_vars

\* A class and a class that extends it, resolved and released in any order.
Family == {"Leaf", "Sub"}

InitExtends == Is(Empty)

NextExtends ==
  \/ \E store \in Family : Get(store)
  \/ \E store \in Family : Remove(store)
  \/ RunMicrotask

SpecExtends == InitExtends /\ [][NextExtends]_vars

\* A store that injects the same class twice, and that class, resolved and
\* released in any order.
Pair == {"Leaf", "Twice"}

InitTwice == Is(Empty)

NextTwice ==
  \/ \E store \in Pair : Get(store)
  \/ \E store \in Pair : Remove(store)
  \/ RunMicrotask

SpecTwice == InitTwice /\ [][NextTwice]_vars

\* Stores whose injections form a cycle, next to one that injects nothing,
\* resolved and released in any order.
Cyclic == {"A", "B", "Own"}

InitCycle == Is(Empty)

NextCycle ==
  \/ \E store \in Cyclic \cup {"Leaf"} : Get(store)
  \/ \E store \in Cyclic \cup {"Leaf"} : Remove(store)
  \/ RunMicrotask

SpecCycle == InitCycle /\ [][NextCycle]_vars

\* React components over the Container: a component using useNucleux(Mid) and
\* a component using useNucleux(Leaf) mount and unmount, while another
\* consumer resolves and releases Top, which injects both stores, and store
\* methods assign the atoms.

\* the step to the world w, taken while w is within the bounds
CommitWithin(w) ==
  /\ Len(w.insts) <= MaxStores
  /\ \A c \in DOMAIN w.stores : w.stores[c].refCount <= MaxRefs
  /\ Len(w.microtasks) <= MaxPending
  /\ Commit(w)

\* a component calling useNucleux(store) renders for the first time
Render(store) ==
  /\ \A c \in 1..Len(components) : components[c].store # store
  /\ CommitWithin(useNucleuxMemo(World, store))

\* React commits the component c: useSyncExternalStore calls the subscribe
\* function
Mount(c) ==
  /\ components[c].phase = "rendered"
  /\ Commit(useNucleuxSubscribe(World, c))

\* the component c unmounts: React calls the cleanup
Unmount(c) ==
  /\ components[c].phase = "subscribed"
  /\ Commit(useNucleuxCleanup(World, c))

\* the callback of a consumer that holds a store instance and subscribes to
\* one of its atoms directly: (value) => {...}
ConsumerCallback ==
  [kind |-> "watch", owner |-> 0, arity |-> 1, throws |-> FALSE, target |-> NoAtom,
   sources |-> <<>>]

\* the atoms made by this.atom in the stores that are not destroyed
LiveAtoms == {a \in Assignable : ~insts[a[1]].destroyed}

\* a consumer calls store.<atom>.subscribe(callback) on a store it resolved;
\* one consumer does so, once
AtomSubscribe(a) ==
  /\ \A b \in DOMAIN atoms : \A k \in 1..Len(atoms[b].subscribers) :
       atoms[b].subscribers[k].callback.owner # 0
  /\ Commit(subscribe(World, a, ConsumerCallback, FALSE))

\* the store classes components use: the ones that have atoms
HookStores == {"Mid", "Leaf"}

InitReact == Is(Empty)

NextReact ==
  \/ \E store \in HookStores : Render(store)
  \/ \E c \in 1..Len(components) : Mount(c)
  \/ \E c \in 1..Len(components) : Unmount(c)
  \/ Get("Top")
  \/ Remove("Top")
  \/ \E a \in Assignable : \E v \in InputValues(a[2]) : SetValue(a, v)
  \/ \E a \in LiveAtoms : AtomSubscribe(a)
  \/ RunMicrotask

SpecReact == InitReact /\ [][NextReact]_vars

\* Atoms on their own, outside any store: two atoms persisted under one key
\* are constructed one after the other, assigned, subscribed to, unsubscribed
\* from and reset, over a storage adapter whose setItem works, throws or
\* rejects.
\*   a = new Atom(0, {persistence: {persistKey: 'k'}})
\*   b = new Atom(1, {persistence: {persistKey: 'k'}})
AtomDefs == <<[name |-> "a", init |-> Num(0)], [name |-> "b", init |-> Num(1)]>>
StandaloneAtoms == {a \in DOMAIN atoms : a[1] = 0}

\* the callbacks a consumer subscribes: (value, previousValue) => {...} and
\* (value) => { throw ... }
Callbacks ==
  {[kind |-> "watch", owner |-> 0, arity |-> 2, throws |-> FALSE, target |-> NoAtom, sources |-> <<>>],
   [kind |-> "watch", owner |-> 0, arity |-> 1, throws |-> TRUE, target |-> NoAtom, sources |-> <<>>]}

\* a consumer constructs the next atom
NewAtom ==
  LET n == Cardinality(StandaloneAtoms)
  IN  /\ n < Len(AtomDefs)
      /\ LET w == newAtom(World, <<0, AtomDefs[n + 1].name>>, AtomDefs[n + 1].init, "k", NoMemo)
         IN  /\ Len(w.microtasks) <= MaxPending
             /\ Commit(w)

\* a consumer calls atom.subscribe(callback, immediate)
Subscribe(a, callback, immediate) ==
  /\ nextSubId <= MaxSubs
  /\ Commit(subscribe(World, a, callback, immediate))

\* a consumer calls atom.unsubscribe(subId)
Unsubscribe(a, subId) == Commit(unsubscribe(World, a, subId))

\* a consumer calls atom.reset(options)
AtomReset(a, resetValue, clearPersisted) ==
  LET w == reset(World, a, resetValue, clearPersisted)
  IN  /\ Len(w.microtasks) <= MaxPending
      /\ Commit(w)

\* what the storage holds under the key when the program starts: nothing, or
\* the entry an earlier session left
StoredItems == {NoItem, "1"}

InitAtom ==
  \E mode \in {"works", "throws", "rejects"} : \E item \in StoredItems :
    Is([Empty EXCEPT !.adapter = mode, !.storage["k"] = item])

NextAtom ==
  \/ NewAtom
  \/ \E a \in StandaloneAtoms : \E v \in InputValues("x") : SetValue(a, v)
  \/ \E a \in StandaloneAtoms : \E callback \in Callbacks : \E immediate \in BOOLEAN :
       Subscribe(a, callback, immediate)
  \/ \E a \in StandaloneAtoms : \E subId \in 1..nextSubId : Unsubscribe(a, subId)
  \/ \E a \in StandaloneAtoms : \E resetValue, clearPersisted \in BOOLEAN :
       AtomReset(a, resetValue, clearPersisted)
  \/ RunMicrotask

SpecAtom == InitAtom /\ [][NextAtom]_vars

\* An atom whose subscribers assign it: plain callbacks and callbacks that
\* replace undefined by 0 are subscribed to the atoms, in any order, and the
\* atoms are assigned.
\*   a.subscribe((value) => { if (value === undefined) a.value = 0 })
Reassigning(a) ==
  [kind |-> "assign", owner |-> 0, arity |-> 1, throws |-> FALSE, target |-> a,
   sources |-> <<>>]

InitReenter == Is(Empty)

NextReenter ==
  \/ NewAtom
  \/ \E a \in StandaloneAtoms : \E v \in InputValues("x") : SetValue(a, v)
  \/ \E a \in StandaloneAtoms : \E callback \in {ConsumerCallback, Reassigning(a)} :
       Subscribe(a, callback, FALSE)
  \/ \E a \in StandaloneAtoms : \E subId \in 1..nextSubId : Unsubscribe(a, subId)
  \/ RunMicrotask

SpecReenter == InitReenter /\ [][NextReenter]_vars

\* ------------------------------------------------------------------ the claims
\* The claims are stated on the operations themselves: in every reachable
\* state, for every operation a consumer can start there, the state the
\* operation returns and the record of what it did satisfy the claim.

\* the atom's active comparator considers newValue equal to the current value
ComparatorEqual(atom, newValue) ==
  CASE atom.memoization.type = "deep" -> isEqual(newValue, atom._value)
    [] atom.memoization.type = "custom" /\ atom.memoization.compare ->
         compare(newValue, atom._value)
    [] OTHER -> StrictEquals(newValue, atom._value)

\* the calls of the record `calls` made to the subscription subId
CallsTo(log, subId) == {k \in 1..Len(log) : log[k].id = subId}

\* the derived atoms of the program and, for each, its sources in source order
DerivedAtoms ==
  {a \in DOMAIN atoms : \E i \in 1..Len(ClassDef(insts[a[1]].cls).derived) :
                          ClassDef(insts[a[1]].cls).derived[i].name = a[2]}
SourcesOf(a) ==
  LET defs == ClassDef(insts[a[1]].cls).derived
      def  == defs[CHOOSE i \in 1..Len(defs) : defs[i].name = a[2]]
  IN  [j \in 1..Len(def.sources) |-> AtomRef(World, a[1], def.sources[j].via, def.sources[j].name)]

\* the values the setter of an atom is given: by a consumer, or (for a derived
\* atom) by its recompute callback
SetterInputs(a) ==
  IF a \in DerivedAtoms THEN {Num(0), Num(1), Num(2), Num(3)} ELSE InputValues(a[2])

C2_EqualAssignmentIsNoOp ==
  \A a \in DOMAIN atoms : \A v \in SetterInputs(a) :
    LET w == setValue(World, a, v)
    IN  ComparatorEqual(atoms[a], v) =>
          /\ w.atoms = atoms
          /\ w.storage = storage
          /\ w.microtasks = microtasks
          /\ w.calls = <<>>
          /\ w.storageOps = <<>>

\* atoms with subscribers hold a value that differs from a value their
\* comparator considers equal to it: one compared deeply, one with the custom
\* comparator; and a persisted atom with subscribers exists
C2_Witness ==
  /\ \E a \in DOMAIN atoms : \E v \in SetterInputs(a) :
       /\ atoms[a].memoization.type = "deep" /\ atoms[a].subscribers # <<>>
       /\ ComparatorEqual(atoms[a], v) /\ v # atoms[a]._value
  /\ \E a \in DOMAIN atoms : \E v \in SetterInputs(a) :
       /\ atoms[a].memoization.type = "custom" /\ atoms[a].subscribers # <<>>
       /\ ComparatorEqual(atoms[a], v) /\ v # atoms[a]._value
  /\ \E a \in DOMAIN atoms :
       /\ atoms[a].persistence # "" /\ atoms[a].subscribers # <<>>
       /\ storage[atoms[a].persistence] = stringify(atoms[a]._value)

\* how many times x occurs in the sequence log
Count(log, x) == Cardinality({k \in 1..Len(log) : log[k] = x})

\* the instances whose destroy() ran during the operation that returned w
DestroyedBy(w) == {w.destroys[k] : k \in 1..Len(w.destroys)}

\* the classes the instance i has injected
InjectedBy(i) ==
  {insts[i].injectedStores[j].storeClass : j \in 1..Len(insts[i].injectedStores)}

\* C3: between Container operations every record of the registry has
\* refCount >= 1, and its refCount is the number of get calls (direct or by
\* inject) for its store since the record was created minus the number of
\* remove calls for it that returned true.
C3_RefCountIsGetsMinusRemoves ==
  \A c \in DOMAIN stores :
    /\ stores[c].refCount >= 1
    /\ stores[c].refCount = balance[c]

\* a store is held twice while another one, resolved and released before, has
\* been resolved again
C3_Witness ==
  /\ \E c \in DOMAIN stores : stores[c].refCount = 2
  /\ \E c \in DOMAIN stores : \E i \in 1..Len(insts) :
       /\ insts[i].cls = c /\ insts[i].destroyed /\ stores[c].instance # i

\* C4: while the record of a store exists, every get for it (direct or by
\* inject during the construction of another store) returns the one instance of
\* the record, and no constructor of that store runs.
C4_GetReturnsTheSameInstance ==
  \A c \in Classes :
    LET w == get(World, c)
    IN  /\ \A k \in 1..Len(w.gets) :
             w.gets[k].cls \in DOMAIN stores =>
               /\ w.gets[k].ret = stores[w.gets[k].cls].instance
               /\ \A j \in 1..Len(w.constructed) :
                    w.insts[w.constructed[j]].cls # w.gets[k].cls
        /\ c \in DOMAIN stores =>
             /\ w.ret = stores[c].instance
             /\ w.constructed = <<>>
             /\ w.insts = insts
             /\ get(w, c).ret = w.ret

\* a store constructed with its record has been resolved again, and a store
\* that injects a store already registered has been constructed
C4_Witness ==
  /\ \E c \in DOMAIN stores : stores[c].refCount >= 2
  /\ \E i, j \in 1..Len(insts) :
       /\ i < j
       /\ insts[i].cls \in InjectedBy(j)
       /\ insts[j].fields[insts[i].cls] = i

\* C5: remove for a store whose refCount is above 1 decrements the refCount,
\* returns true and destroys nothing; remove for a store whose refCount is 1
\* calls the instance's destroy() exactly once, deletes the record and returns
\* true.
C5_RemoveDecrementsOrDestroys ==
  \A c \in DOMAIN stores :
    LET w == remove(World, c, 0)
        r == stores[c]
    IN  /\ w.ret = TRUE
        /\ r.refCount > 1 =>
             /\ w.stores = [stores EXCEPT ![c].refCount = r.refCount - 1]
             /\ w.destroys = <<>>
             /\ w.insts = insts
        /\ r.refCount = 1 =>
             /\ c \notin DOMAIN w.stores
             /\ Count(w.destroys, r.instance) = 1
             /\ w.insts[r.instance].destroyed

\* a store held twice and a store held once are registered, and an instance
\* has been destroyed
C5_Witness ==
  /\ \E c \in DOMAIN stores : stores[c].refCount > 1
  /\ \E c \in DOMAIN stores : stores[c].refCount = 1
  /\ \E i \in 1..Len(insts) : insts[i].destroyed /\ insts[i].cls \notin DOMAIN stores

\* the operations that assign or reset atoms, as the states they return
Assignments == {setValue(World, a, v) : <<a, v>> \in {<<a, v>> \in Assignable \X
                  UNION {InputValues(n) : n \in {"x", "y"}} : v \in InputValues(a[2])}}
Resumptions ==
  IF microtasks = <<>> THEN {}
  ELSE {resume([World EXCEPT !.microtasks = Tail(@)], Head(microtasks))}
ResetsOf(self) ==
  {storeReset(World, self, o.resetValues, o.clearPersisted, o.atomKeys) :
     o \in ResetChoices(insts[self].cls)}
    \cup {clearPersistedData(World, self), resetValues(World, self)}
\* the Store.reset calls on self that do not reset its atom called name
ResetsSparing(self, name) ==
  {storeReset(World, self, o.resetValues, o.clearPersisted, o.atomKeys) :
     o \in {o \in ResetChoices(insts[self].cls) :
              o.atomKeys.given /\ name \notin o.atomKeys.names}}

\* C6: once destroy() of a store has returned, its subscription table is empty
\* and none of the callbacks it registered by watchAtom or deriveAtom is
\* subscribed to any atom or invoked by any later assignment or reset; its
\* derived atoms do not change when their sources are assigned or reset.
C6_DestroyedStoreIsDetached ==
  \A i \in 1..Len(insts) :
    insts[i].destroyed =>
      /\ insts[i].subscriptions = <<>>
      /\ \A a \in DOMAIN atoms : \A k \in 1..Len(atoms[a].subscribers) :
           atoms[a].subscribers[k].callback.owner # i
      /\ \A w \in Assignments \cup Resumptions \cup UNION {ResetsOf(j) : j \in 1..Len(insts)} :
           \A k \in 1..Len(w.calls) : w.calls[k].callback.owner # i
      /\ \A d \in DerivedAtoms :
           d[1] = i =>
             \A w \in Assignments \cup Resumptions \cup ResetsSparing(i, d[2])
                        \cup UNION {ResetsOf(j) : j \in 1..Len(insts) \ {i}} :
               w.atoms[d] = atoms[d]

\* a store with a derived atom is destroyed and a source of the derived atom,
\* in a store still registered, has changed since
C6_Witness ==
  \E d \in DerivedAtoms :
    /\ insts[d[1]].destroyed
    /\ ~ComparatorEqual(atoms[d], getDerivedValue(World, SourcesOf(d)))
    /\ \E j \in 1..Len(SourcesOf(d)) :
         LET s == SourcesOf(d)[j]
         IN  /\ ~insts[s[1]].destroyed
             /\ atoms[s]._value # atoms[s]._initialValue

\* C7: when remove destroys a store, the destroyed store calls Container.remove
\* exactly once for every store it injected (and for no other); an injected
\* store that is left without a reference is destroyed too, transitively, and
\* one that is still referenced stays registered, alive, with its refCount
\* reduced by one for each destroyed store that injected it.
C7_DestroyReleasesInjectedStores ==
  \A c \in DOMAIN stores :
    LET w == remove(World, c, 0)
        Releases(c2) == Cardinality({i \in DestroyedBy(w) : c2 \in InjectedBy(i)})
    IN  /\ \A i \in DestroyedBy(w) : \A c2 \in Classes :
             Cardinality({k \in 1..Len(w.removeCalls) :
                            w.removeCalls[k].by = i /\ w.removeCalls[k].cls = c2})
               = IF c2 \in InjectedBy(i) THEN 1 ELSE 0
        /\ \A c2 \in DOMAIN stores \ {c} :
             IF Releases(c2) >= stores[c2].refCount
             THEN /\ c2 \notin DOMAIN w.stores
                  /\ stores[c2].instance \in DestroyedBy(w)
             ELSE /\ w.stores[c2] = [stores[c2] EXCEPT !.refCount = @ - Releases(c2)]
                  /\ stores[c2].instance \notin DestroyedBy(w)
                  /\ ~w.insts[stores[c2].instance].destroyed

\* a store and a store it injected are destroyed while a store both injected,
\* which had another reference, is alive and registered
C7_Witness ==
  \E t, m, l \in 1..Len(insts) :
    /\ insts[t].destroyed /\ insts[m].destroyed /\ ~insts[l].destroyed
    /\ insts[m].cls \in InjectedBy(t) /\ insts[t].fields[insts[m].cls] = m
    /\ insts[l].cls \in InjectedBy(m) /\ insts[m].fields[insts[l].cls] = l
    /\ insts[l].cls \in InjectedBy(t) /\ insts[t].fields[insts[l].cls] = l
    /\ insts[l].cls \in DOMAIN stores /\ stores[insts[l].cls].instance = l

\* C8: the successful remove that makes the removes of a store match its gets
\* destroys the instance and deletes the record; the registry never holds a
\* destroyed instance and get never returns one; the next get for the store
\* runs its constructor and returns a new, distinct instance.
C8_NoResurrection ==
  /\ \A c \in DOMAIN stores : ~insts[stores[c].instance].destroyed
  /\ \A c \in DOMAIN stores :
       LET w == remove(World, c, 0)
       IN  (w.ret = TRUE /\ balance[c] = 1) =>
             /\ w.insts[stores[c].instance].destroyed
             /\ c \notin DOMAIN w.stores
  /\ \A c \in Classes :
       LET w == get(World, c)
       IN  /\ ~w.insts[w.ret].destroyed
           /\ \A k \in 1..Len(w.gets) : ~w.insts[w.gets[k].ret].destroyed
           /\ c \notin DOMAIN stores =>
                /\ w.ret \notin 1..Len(insts)
                /\ Count(w.constructed, w.ret) = 1
                /\ w.insts[w.ret].cls = c
                /\ w.stores[c].instance = w.ret

\* a store has been resolved, released to destruction and resolved again
C8_Witness ==
  \E i, j \in 1..Len(insts) :
    /\ i < j /\ insts[i].cls = insts[j].cls
    /\ insts[i].destroyed /\ ~insts[j].destroyed
    /\ insts[j].cls \in DOMAIN stores /\ stores[insts[j].cls].instance = j

\* C9 as stated: the derived atom's value is the transformer of its sources at
\* construction, and whenever no setter or reset is executing it equals, under
\* the derived atom's own comparator, the transformer of the sources' current
\* values (for a store that has not been destroyed).
C9_DerivedFollowsSources ==
  \A d \in DerivedAtoms :
    ~insts[d[1]].destroyed =>
      ComparatorEqual(atoms[d], getDerivedValue(World, SourcesOf(d)))

\* C10 as stated: no Store.reset call (reset, resetValues, clearPersistedData)
\* changes the value of a derived atom or notifies its subscribers, except by
\* the recompute callback run by a notification of one of its sources.
C10_DerivedIsReadOnly ==
  \A self \in 1..Len(insts) : \A w \in ResetsOf(self) :
    \A d \in DerivedAtoms :
      (\A k \in 1..Len(w.calls) :
         ~(w.calls[k].callback.kind = "derive" /\ w.calls[k].callback.target = d))
      => /\ w.atoms[d]._value = atoms[d]._value
         /\ \A k \in 1..Len(w.calls) : w.calls[k].atom # d

\* the notification pass of atom a that returned w ran exactly one recompute of
\* the derived atom d, and notified d's subscribers (each once, with the
\* recomputed value) exactly when the recomputed value differs from d's value
\* under d's comparator
RecomputedOnce(w, a, d) ==
  LET recomputed == getDerivedValue(w, SourcesOf(d))
  IN  /\ Cardinality({k \in 1..Len(w.calls) :
                        /\ w.calls[k].atom = a
                        /\ w.calls[k].callback.kind = "derive"
                        /\ w.calls[k].callback.target = d}) = 1
      /\ IF ComparatorEqual(atoms[d], recomputed)
         THEN /\ w.atoms[d] = atoms[d]
              /\ \A k \in 1..Len(w.calls) : w.calls[k].atom # d
         ELSE /\ w.atoms[d]._value = recomputed
              /\ \A i \in 1..Len(atoms[d].subscribers) :
                   LET mine == CallsTo(w.calls, atoms[d].subscribers[i].id)
                   IN  /\ Cardinality(mine) = 1
                       /\ \A k \in mine : w.calls[k].atom = d /\ w.calls[k].value = recomputed

\* C11: each notification delivered by a source atom (a non-skipped
\* assignment, or a reset of its value) runs exactly one recompute of each
\* derived atom of a live store subscribed to it, and the derived atom's
\* subscribers are notified for that recompute if and only if the recomputed
\* value differs from the derived atom's current value under the derived atom's
\* own comparator.
C11_OneRecomputePerNotification ==
  \A d \in DerivedAtoms :
    ~insts[d[1]].destroyed =>
      \A j \in 1..Len(SourcesOf(d)) :
        LET a == SourcesOf(d)[j]
        IN  /\ \A v \in InputValues(a[2]) :
                 ~ComparatorEqual(atoms[a], v) => RecomputedOnce(setValue(World, a, v), a, d)
            /\ RecomputedOnce(reset(World, a, TRUE, FALSE), a, d)

\* a derived atom with a subscriber has been recomputed to a value its
\* comparator tells from the one it had (it is not its initial value), and then
\* to a value its comparator does not tell from it (it kept the former)
C11_Witness ==
  \E d \in DerivedAtoms :
    /\ ~insts[d[1]].destroyed
    /\ atoms[d].subscribers # <<>>
    /\ atoms[d]._value # atoms[d]._initialValue
    /\ atoms[d]._value # getDerivedValue(World, SourcesOf(d))
    /\ ComparatorEqual(atoms[d], getDerivedValue(World, SourcesOf(d)))

\* an atom constructed for the round trip, beside the ones of the program
Fresh == <<0, "fresh">>

\* the value a new atom persisted under the key of atom a holds, once
\* hydrated, when it is constructed with initialValue right after a is
\* assigned v
HydratedAfter(a, v, initialValue) ==
  Settle(newAtom(setValue(World, a, v), Fresh, initialValue, atoms[a].persistence,
                 NoMemo)).atoms[Fresh]._value

C13_ResetLaw ==
  \A a \in StandaloneAtoms : \A clearPersisted \in BOOLEAN :
    Settle(reset(World, a, TRUE, clearPersisted)).atoms[a]._value = atoms[a]._initialValue

\* the value resets of Atom.reset that run from the current state, each with
\* its atom: a reset that awaits nothing, and the resumption of a reset that
\* awaited the storage
ValueResets ==
  {[atom |-> a, w |-> reset(World, a, TRUE, FALSE)] : a \in StandaloneAtoms}
    \cup (IF microtasks # <<>> /\ Head(microtasks).kind = "reset" /\ Head(microtasks).resetValue
          THEN {[atom |-> Head(microtasks).atom,
                 w |-> resume([World EXCEPT !.microtasks = Tail(@)], Head(microtasks))]}
          ELSE {})

\* C14 as stated: Atom.reset with resetValue = true sets the value to
\* initialValue and invokes every registered subscriber exactly once with
\* (initialValue, valueBeforeReset), whether or not the value before the reset
\* equals initialValue.
C14_Original ==
  \A r \in ValueResets :
    /\ r.w.atoms[r.atom]._value = atoms[r.atom]._initialValue
    /\ ~r.w.thrown
    /\ \A i \in 1..Len(atoms[r.atom].subscribers) :
         LET mine == CallsTo(r.w.calls, atoms[r.atom].subscribers[i].id)
         IN  /\ Cardinality(mine) = 1
             /\ \A k \in mine : /\ r.w.calls[k].value = atoms[r.atom]._initialValue
                                /\ r.w.calls[k].hasPrevious
                                /\ r.w.calls[k].previous = atoms[r.atom]._value

\* C14 (amended): Atom.reset with resetValue = true sets the value to
\* initialValue and invokes every registered subscriber exactly once, with
\* initialValue, and with the value before the reset as second argument exactly
\* when the callback declares two parameters; it does so whether or not the
\* value before the reset equals initialValue, and does not throw.
C14_ResetAlwaysNotifies ==
  \A r \in ValueResets :
    /\ r.w.atoms[r.atom]._value = atoms[r.atom]._initialValue
    /\ ~r.w.thrown
    /\ \A i \in 1..Len(atoms[r.atom].subscribers) :
         LET sub  == atoms[r.atom].subscribers[i]
             mine == CallsTo(r.w.calls, sub.id)
         IN  /\ Cardinality(mine) = 1
             /\ \A k \in mine :
                  /\ r.w.calls[k].value = atoms[r.atom]._initialValue
                  /\ r.w.calls[k].atom = r.atom
                  /\ r.w.calls[k].hasPrevious = (sub.callback.arity = 2)
                  /\ r.w.calls[k].hasPrevious => r.w.calls[k].previous = atoms[r.atom]._value

\* an atom with a two-parameter and a one-parameter subscriber holds its
\* initial value, and its reset is about to resume
C14_Witness ==
  /\ microtasks # <<>> /\ Head(microtasks).kind = "reset" /\ Head(microtasks).resetValue
  /\ LET a == Head(microtasks).atom
     IN  /\ atoms[a]._value = atoms[a]._initialValue
         /\ \E i, j \in 1..Len(atoms[a].subscribers) :
              /\ atoms[a].subscribers[i].callback.arity = 2
              /\ atoms[a].subscribers[j].callback.arity # 2

\* the atoms held by the own fields of the store self
OwnAtoms(self) == {a \in DOMAIN atoms : a[1] = self}

\* the storage calls of the record log that delete an entry
Deletes(log) == {k \in 1..Len(log) : log[k].op = "removeItem"}

\* C15: Atom.reset with resetValue = false leaves the atom's value unchanged
\* and notifies no subscriber, also once it has settled, while it still deletes
\* the persisted entry (if the atom is persisted and clearPersisted is true);
\* Atom.reset with clearPersisted = false resets the value and issues no
\* storage delete; Store.clearPersistedData and Store.resetValues apply these
\* two modes to every own atom of the store.
C15_ResetFlagsAreIndependent ==
  /\ \A a \in DOMAIN atoms : \A clearPersisted \in BOOLEAN :
       LET w == reset(World, a, FALSE, clearPersisted)
           settled == Settle(w)
       IN  /\ w.atoms = atoms /\ w.calls = <<>>
           /\ settled.atoms[a]._value \in {atoms[a]._value} \cup
                {Settle(World).atoms[a]._value}
           /\ \A k \in 1..Len(settled.calls) :
                settled.calls[k] \in {Settle(World).calls[j] : j \in 1..Len(Settle(World).calls)}
           /\ IF clearPersisted /\ atoms[a].persistence # ""
              THEN /\ w.storageOps = <<[op |-> "removeItem", key |-> atoms[a].persistence,
                                        item |-> NoItem]>>
                   /\ w.storage[atoms[a].persistence] = NoItem
              ELSE w.storageOps = <<>> /\ w.storage = storage
  /\ \A a \in DOMAIN atoms :
       LET w == reset(World, a, TRUE, FALSE)
       IN  /\ w.atoms[a]._value = atoms[a]._initialValue
           /\ Deletes(w.storageOps) = {}
           /\ w.storage = storage
           /\ w.microtasks = microtasks
  /\ \A self \in 1..Len(insts) :
       LET w == clearPersistedData(World, self)
       IN  /\ w.atoms = atoms /\ w.calls = <<>>
           /\ \A a \in OwnAtoms(self) :
                Cardinality({k \in Deletes(w.storageOps) : w.storageOps[k].key = atoms[a].persistence})
                  = IF atoms[a].persistence # "" THEN 1 ELSE 0
           /\ \A k \in 1..Len(w.storageOps) :
                /\ k \in Deletes(w.storageOps)
                /\ \E a \in OwnAtoms(self) : w.storageOps[k].key = atoms[a].persistence
           /\ Settle(w).atoms = Settle(World).atoms
  /\ \A self \in 1..Len(insts) :
       LET w == resetValues(World, self)
       IN  /\ w.storageOps = <<>> /\ w.storage = storage /\ w.microtasks = microtasks
           /\ \A a \in OwnAtoms(self) :
                /\ w.atoms[a]._value = atoms[a]._initialValue
                /\ \A i \in 1..Len(atoms[a].subscribers) :
                     \E k \in CallsTo(w.calls, atoms[a].subscribers[i].id) :
                       w.calls[k].atom = a /\ w.calls[k].value = atoms[a]._initialValue

\* a persisted atom with subscribers holds an assigned value although its
\* entry has been deleted from the storage: only the storage was cleared
C15_Witness ==
  /\ microtasks = <<>>
  /\ \E a \in DOMAIN atoms :
       /\ atoms[a].persistence # "" /\ atoms[a].subscribers # <<>>
       /\ atoms[a]._value = Num(1) /\ atoms[a]._value # atoms[a]._initialValue
       /\ storage[atoms[a].persistence] = NoItem

\* the subscription subId is registered on the atom a
Registered(a, subId) == \E i \in 1..Len(atoms[a].subscribers) : atoms[a].subscribers[i].id = subId

\* the assignments, resets and resumptions a consumer can start on standalone
\* atoms in state w, as the states they return once settled
LaterOps(w) ==
  {Settle(setValue(w, a, v)) : <<a, v>> \in StandaloneAtoms \X InputValues("x")}
    \cup {Settle(reset(w, a, rc[1], rc[2])) : <<a, rc>> \in StandaloneAtoms \X (BOOLEAN \X BOOLEAN)}

\* C16: unsubscribe(id) returns true exactly when id is registered on the atom
\* and then removes that entry alone; otherwise (an id never issued, already
\* unsubscribed, or registered on another atom) it returns false and changes
\* nothing; a subscription that is not registered any more is not invoked by
\* any later assignment or reset.
C16_Unsubscribe ==
  /\ \A a \in StandaloneAtoms : \A subId \in 1..nextSubId :
       LET w == unsubscribe(World, a, subId)
       IN  /\ w.ret = Registered(a, subId)
           /\ w.calls = <<>>
           /\ \A b \in StandaloneAtoms \ {a} : w.atoms[b] = atoms[b]
           /\ IF Registered(a, subId)
              THEN /\ w.atoms[a].subscribers =
                        SelectSeq(atoms[a].subscribers, LAMBDA e : e.id # subId)
                   /\ Len(w.atoms[a].subscribers) = Len(atoms[a].subscribers) - 1
                   /\ \A l \in LaterOps(w) : CallsTo(l.calls, subId) = {}
              ELSE w.atoms = atoms
  /\ \A subId \in 1..(nextSubId - 1) :
       (\A a \in StandaloneAtoms : ~Registered(a, subId)) =>
         \A l \in LaterOps(World) : CallsTo(l.calls, subId) = {}

\* a subscription has been unsubscribed while another stays on the same atom,
\* which has been assigned since its construction
C16_Witness ==
  \E a \in StandaloneAtoms : \E subId \in 1..(nextSubId - 1) :
    /\ \A b \in StandaloneAtoms : ~Registered(b, subId)
    /\ atoms[a].subscribers # <<>>
    /\ \A i \in 1..Len(atoms[a].subscribers) : atoms[a].subscribers[i].id > subId
    /\ atoms[a]._value # atoms[a]._initialValue

\* C17: subscribe(callback, immediate) registers the callback under a new id,
\* which it returns; with immediate = true the callback is invoked exactly
\* once before subscribe returns, with the atom's current in-memory value and
\* no previous value; with immediate = false it is not invoked by subscribe nor
\* by a skipped assignment, and it is invoked by the next non-skipped
\* assignment or value reset that reaches its notification pass.
C17_Subscribe ==
  \A a \in StandaloneAtoms : \A callback \in Callbacks : \A immediate \in BOOLEAN :
    LET w  == subscribe(World, a, callback, immediate)
        id == nextSubId
    IN  /\ \A b \in StandaloneAtoms : ~Registered(b, id)
        /\ w.atoms[a].subscribers = Append(atoms[a].subscribers, [id |-> id, callback |-> callback])
        /\ w.atoms[a]._value = atoms[a]._value
        /\ ~w.thrown => w.ret = id
        /\ w.thrown = (immediate /\ callback.throws)
        /\ immediate =>
             w.calls = <<[id |-> id, atom |-> a, callback |-> callback,
                          value |-> atoms[a]._value, hasPrevious |-> FALSE,
                          previous |-> Undefined]>>
        /\ ~immediate =>
             /\ w.calls = <<>>
             /\ \A v \in InputValues("x") :
                  LET w1 == setValue(w, a, v)
                  IN  Cardinality(CallsTo(w1.calls, id)) =
                        IF ComparatorEqual(atoms[a], v) \/ w1.thrown THEN 0 ELSE 1
             /\ Cardinality(CallsTo(reset(w, a, TRUE, FALSE).calls, id)) = 1

\* an atom whose hydration is still suspended has been assigned and then
\* subscribed to: its in-memory value is neither its initial value nor,
\* yet, the persisted one
C17_Witness ==
  \E a \in StandaloneAtoms :
    /\ atoms[a].subscribers # <<>>
    /\ atoms[a]._value # atoms[a]._initialValue
    /\ \E k \in 1..Len(microtasks) :
         /\ microtasks[k].kind = "hydrate" /\ microtasks[k].atom = a
         /\ microtasks[k].raw # stringify(atoms[a]._value)

\* every subscriber registered on atom a before the pass was invoked exactly
\* once in the pass recorded in w
AllInvokedOnce(w, a) ==
  \A i \in 1..Len(atoms[a].subscribers) :
    Cardinality(CallsTo(w.calls, atoms[a].subscribers[i].id)) = 1

\* C18 as stated: a non-skipped assignment to a persisted atom whose storage
\* write fails (setItem throws, or returns a promise that rejects) does not
\* throw to the caller, stores the new value and notifies every registered
\* subscriber.
C18_WriteFailureIsContained ==
  \A a \in StandaloneAtoms : \A v \in InputValues("x") :
    (adapter # "works" /\ v # Undefined /\ ~ComparatorEqual(atoms[a], v)) =>
      LET w == setValue(World, a, v)
      IN  /\ ~w.thrown
          /\ w.atoms[a]._value = v
          /\ AllInvokedOnce(w, a)

\* C19: in a notification pass (of a non-skipped assignment whose storage
\* write does not throw, or of a value reset) a subscriber callback that throws
\* does not stop the pass: every registered subscriber is invoked exactly
\* once, the atom keeps the new value, and the setter or reset does not throw.
C19_ThrowingSubscriberIsIsolated ==
  /\ \A a \in StandaloneAtoms : \A v \in InputValues("x") :
       (~ComparatorEqual(atoms[a], v) /\ (adapter # "throws" \/ v = Undefined)) =>
         LET w == setValue(World, a, v)
         IN  /\ ~w.thrown
             /\ w.atoms[a]._value = v
             /\ AllInvokedOnce(w, a)
  /\ \A r \in ValueResets :
       /\ ~r.w.thrown
       /\ AllInvokedOnce(r.w, r.atom)

\* an atom has been assigned while a subscriber that throws was registered
\* before one that does not
C19_Witness ==
  \E a \in StandaloneAtoms : \E i, j \in 1..Len(atoms[a].subscribers) :
    /\ i < j
    /\ atoms[a].subscribers[i].callback.throws
    /\ ~atoms[a].subscribers[j].callback.throws
    /\ atoms[a]._value # atoms[a]._initialValue

\* the hydrations that resume from the current state having read no entry
Seedings ==
  IF microtasks # <<>> /\ Head(microtasks).kind = "hydrate" /\ Head(microtasks).raw = NoItem
  THEN {Head(microtasks).atom} ELSE {}

\* C20: when the hydration of a persisted atom has found no entry under its
\* key, it issues one write, of the serialization of the atom's current value
\* under that key, changes no atom's value and notifies no subscriber.
C20_HydrationSeedsStorage ==
  \A a \in Seedings :
    LET w == resume([World EXCEPT !.microtasks = Tail(@)], Head(microtasks))
    IN  /\ w.storageOps = <<[op |-> "setItem", key |-> atoms[a].persistence,
                             item |-> stringify(atoms[a]._value)]>>
        /\ adapter = "works" => w.storage[atoms[a].persistence] = stringify(atoms[a]._value)
        /\ w.atoms = atoms
        /\ w.calls = <<>>
        /\ ~w.thrown

\* the hydration of an atom that found no entry is about to resume; the atom
\* has a subscriber and has been assigned since its construction
C20_Witness ==
  \E a \in Seedings :
    /\ adapter = "works"
    /\ atoms[a].subscribers # <<>>
    /\ atoms[a]._value # atoms[a]._initialValue

\* C21: Container.remove for a store class that has no record in the registry
\* (never resolved, or already fully removed) returns false and changes
\* nothing: no record is created, no refCount changes, no destroy() is called.
C21_RemoveWithoutRecord ==
  \A c \in Classes \ DOMAIN stores :
    LET w == remove(World, c, 0)
    IN  /\ w.ret = FALSE
        /\ w.stores = stores
        /\ w.insts = insts
        /\ w.atoms = atoms
        /\ w.storage = storage
        /\ w.microtasks = microtasks
        /\ w.destroys = <<>>
        /\ w.constructed = <<>>
        /\ w.calls = <<>>

\* a store that was resolved and fully removed has no record, a store that
\* was never resolved has none either, and a third store is registered
C21_Witness ==
  /\ \E c \in Classes \ DOMAIN stores :
       \E i \in 1..Len(insts) : insts[i].cls = c /\ insts[i].destroyed
  /\ \E c \in Classes \ DOMAIN stores : \A i \in 1..Len(insts) : insts[i].cls # c
  /\ DOMAIN stores # {}

\* C22: once the process-wide instance exists, constructing a Container is
\* rejected with an error, and Container.getInstance() returns the same single
\* registry for the whole lifetime of the process.
C22_ContainerIsSingular ==
  LET w == newContainer(World)
  IN  /\ instance = Empty.instance
      /\ getInstance(World).ret = Empty.instance
      /\ w.thrown
      /\ w.instance = instance
      /\ w.stores = stores
      /\ getInstance(w).ret = getInstance(World).ret

\* the process-wide instance exists and its registry holds stores, one of
\* them resolved twice
C22_Witness ==
  /\ instance # 0
  /\ \E c \in DOMAIN stores : stores[c].refCount = 2
  /\ newContainer(World).thrown

\* the atomKeys a consumer may pass: omitted, or any set of the store's field
\* names and a name that is no field
AtomKeysInputs(cls) ==
  {NoKeys} \cup {[given |-> TRUE, names |-> n] :
                   n \in SUBSET ({AtomKeys(cls)[i] : i \in 1..Len(AtomKeys(cls))} \cup {"nonExistent"})}

\* the atom-valued fields of the store selected by atomKeys, in field order
SelectedKeys(cls, atomKeys) ==
  SelectSeq(AtomKeys(cls), LAMBDA k : ~atomKeys.given \/ k \in atomKeys.names)

\* the Atom.reset calls Store.reset is to make
ExpectedResets(self, resetValue, clearPersisted, atomKeys) ==
  LET keys == SelectedKeys(insts[self].cls, atomKeys)
  IN  [i \in 1..Len(keys) |-> [atom |-> <<self, keys[i]>>, resetValue |-> resetValue,
                               clearPersisted |-> clearPersisted]]

\* the Atom.reset calls among them that are suspended at their await when
\* Store.reset reaches its own
SuspendedResets(self, resetValue, clearPersisted, atomKeys) ==
  LET keys == SelectSeq(SelectedKeys(insts[self].cls, atomKeys),
                        LAMBDA k : clearPersisted /\ atoms[<<self, k>>].persistence # "")
  IN  [i \in 1..Len(keys) |-> [kind |-> "reset", atom |-> <<self, keys[i]>>, raw |-> NoItem,
                               resetValue |-> resetValue]]

\* the atoms Store.reset is to reset
SelectedAtoms(self, atomKeys) ==
  {<<self, SelectedKeys(insts[self].cls, atomKeys)[i]>> :
     i \in 1..Len(SelectedKeys(insts[self].cls, atomKeys))}

C24_ProxyIsReadOnly ==
  \A self \in 1..Len(insts) : \A key \in ProxyKeys(self) :
    /\ \A isServerSnapshot \in BOOLEAN :
         LET w == proxyGet(World, self, key, isServerSnapshot)
         IN  /\ <<self, key>> \in OwnAtoms(self) =>
                  w.ret = Plain(IF isServerSnapshot THEN atoms[<<self, key>>]._initialValue
                                ELSE atoms[<<self, key>>]._value)
             /\ key = "nonExistent" => w.ret = Plain(Undefined)
             /\ w.atoms = atoms
    /\ \A v \in InputValues("x") \cup InputValues("y") :
         LET w == proxySet(World, self, key, v)
         IN  /\ \A a \in DOMAIN atoms : w.atoms[a]._value = atoms[a]._value
             /\ w.calls = <<>>
             /\ w.storageOps = <<>>

\* a registered store has an atom whose value differs from its initial value
\* and from the values a component assigns
C24_Witness ==
  \E c \in DOMAIN stores : \E a \in OwnAtoms(stores[c].instance) :
    /\ atoms[a]._value # atoms[a]._initialValue
    /\ \E v \in InputValues(a[2]) : ~ComparatorEqual(atoms[a], v)

\* C25: assigning undefined to a persisted atom updates the in-memory value
\* and notifies the subscribers but issues no storage write, so the entry
\* under the persistence key keeps its previous content.
C25_UndefinedIsNotPersisted ==
  \A a \in StandaloneAtoms :
    LET w == setValue(World, a, Undefined)
    IN  (atoms[a].persistence # "" /\ atoms[a]._value # Undefined) =>
          /\ w.atoms[a]._value = Undefined
          /\ AllInvokedOnce(w, a)
          /\ \A k \in 1..Len(w.calls) : w.calls[k].value = Undefined
          /\ w.storageOps = <<>>
          /\ w.storage = storage
          /\ ~w.thrown

\* a persisted atom with a subscriber holds undefined while the entry under
\* its key holds a value written before
C25_Witness ==
  \E a \in StandaloneAtoms :
    /\ atoms[a].persistence # ""
    /\ atoms[a]._value = Undefined
    /\ atoms[a].subscribers # <<>>
    /\ parses(storage[atoms[a].persistence])

\* the value the constructor of the standalone atom a was given
ConstructedWith(a) ==
  AtomDefs[CHOOSE i \in 1..Len(AtomDefs) : AtomDefs[i].name = a[2]].init

\* C26: an atom's initialValue equals the value passed to its constructor
\* after any sequence of assignments, resets and hydration; no operation
\* reassigns it.
C26_InitialValueIsImmutable ==
  \A a \in StandaloneAtoms : atoms[a]._initialValue = ConstructedWith(a)

\* an atom has hydrated to a persisted value other than its initial value,
\* and another one has been assigned and its hydration and resets are over
C26_Witness ==
  /\ microtasks = <<>>
  /\ \E a, b \in StandaloneAtoms :
       /\ a # b
       /\ atoms[a]._value # ConstructedWith(a)
       /\ atoms[b]._value # ConstructedWith(b)
       /\ atoms[b]._value # Undefined
       /\ storage[atoms[b].persistence] = stringify(atoms[b]._value)

\* C27: after a component using useNucleux(StoreClass) has unmounted (the
\* cleanup returned by the hook's subscribe function has run), the watchers
\* that hook registered on the store's atoms are not invoked by any later atom
\* change, whatever other references to the same store are still held.
C27_UnmountedHookIsSilent ==
  \A c \in 1..Len(components) :
    components[c].phase = "unmounted" =>
      \A w \in Assignments \cup Resumptions :
        \A k \in 1..Len(w.calls) : w.calls[k].id \notin components[c].subIds

\* the storage write of a non-skipped assignment of v to the atom a, if any
WriteOf(a, v) ==
  IF v # Undefined /\ atoms[a].persistence # ""
  THEN <<[op |-> "setItem", key |-> atoms[a].persistence, item |-> stringify(v)]>>
  ELSE <<>>

\* C28: in a non-skipped assignment the atom's value is updated, and the
\* persistence write (if any) is issued, before the first subscriber is
\* invoked: a subscriber that reads the atom's value inside its callback
\* observes newValue.
C28_StoredAndPersistedBeforeNotifying ==
  \A a \in DOMAIN atoms : \A v \in SetterInputs(a) :
    LET w == setValue(World, a, v)
    IN  ~ComparatorEqual(atoms[a], v) =>
          \A k \in 1..Len(w.observed) :
            w.observed[k].atom = a =>
              /\ w.observed[k].value = v
              /\ SubSeq(w.observed[k].storageOps, 1, Len(WriteOf(a, v))) = WriteOf(a, v)

\* a persisted atom with two subscribers has been assigned and its value
\* written to the storage
C28_Witness ==
  \E a \in DOMAIN atoms :
    /\ atoms[a].persistence # ""
    /\ Len(atoms[a].subscribers) >= 2
    /\ atoms[a]._value \notin {atoms[a]._initialValue, Undefined}
    /\ storage[atoms[a].persistence] = stringify(atoms[a]._value)

\* the calls of the record `calls` made after the k-th to subscribers of atom a
LaterCallsOn(log, k, a) == {j \in (k + 1)..Len(log) : log[j].atom = a}

\* C29: a derived atom's recompute triggered by a source notification runs to
\* completion, including notifying the derived atom's own subscribers, before
\* the source atom's notification loop invokes its next subscriber and before
\* the source setter returns.
C29_RecomputeCompletesFirst ==
  \A a \in Assignable : \A v \in InputValues(a[2]) :
    LET w == setValue(World, a, v)
    IN  ~ComparatorEqual(atoms[a], v) =>
          \A k \in 1..Len(w.calls) :
            (w.calls[k].atom = a /\ w.calls[k].callback.kind = "derive") =>
              LET d == w.calls[k].callback.target
                  newComputedValue ==
                    getDerivedValue([World EXCEPT !.atoms[a]._value = v],
                                    w.calls[k].callback.sources)
                  changed == ~ComparatorEqual(atoms[d], newComputedValue)
                  next == LaterCallsOn(w.calls, k, a)
              IN  /\ w.atoms[d]._value = IF changed THEN newComputedValue ELSE atoms[d]._value
                  /\ \A j \in next : w.observed[j].atoms[d]._value = w.atoms[d]._value
                  /\ changed =>
                       \A i \in 1..Len(atoms[d].subscribers) :
                         LET mine == CallsTo(w.calls, atoms[d].subscribers[i].id)
                         IN  /\ Cardinality(mine) = 1
                             /\ \A m \in mine : /\ m > k
                                                /\ w.calls[m].value = newComputedValue
                                                /\ \A j \in next : m < j

\* a derived atom with a subscriber of its own has been recomputed to a value
\* other than its initial one, and its recompute callback is followed by
\* another subscriber on one of its sources
C29_Witness ==
  \E d \in DerivedAtoms :
    /\ atoms[d]._value # atoms[d]._initialValue
    /\ atoms[d].subscribers # <<>>
    /\ \E i \in 1..Len(SourcesOf(d)) :
         LET subs == atoms[SourcesOf(d)[i]].subscribers
         IN  \E m, n \in 1..Len(subs) :
               /\ m < n
               /\ subs[m].callback.kind = "derive" /\ subs[m].callback.target = d
               /\ subs[n].callback.kind = "watch"

\* the hydrations that resume from the current state having read an entry
\* that parses
Hydrations ==
  IF microtasks # <<>> /\ Head(microtasks).kind = "hydrate" /\ parses(Head(microtasks).raw)
  THEN {Head(microtasks).atom} ELSE {}

\* C30: when hydration finds a parseable persisted value it is applied through
\* the normal setter: if the comparator considers it equal to the atom's
\* current value nothing changes and no subscriber is notified; otherwise the
\* value becomes the persisted value and every subscriber registered at that
\* moment is notified once with the persisted value and, as the setter does
\* for a callback that declares two parameters, the value before hydration.
\* A newly constructed atom holds its constructor-supplied value, whatever the
\* storage holds, with its hydration still to come.
C30_HydrationGoesThroughTheSetter ==
  /\ \A a \in Hydrations :
       LET w == resume([World EXCEPT !.microtasks = Tail(@)], Head(microtasks))
           persistedValue == parse(Head(microtasks).raw)
       IN  IF ComparatorEqual(atoms[a], persistedValue)
           THEN /\ w.atoms = atoms
                /\ w.calls = <<>>
           ELSE /\ w.atoms[a]._value = persistedValue
                /\ \A i \in 1..Len(atoms[a].subscribers) :
                     LET sub  == atoms[a].subscribers[i]
                         mine == CallsTo(w.calls, sub.id)
                     IN  /\ Cardinality(mine) = 1
                         /\ \A k \in mine :
                              /\ w.calls[k].value = persistedValue
                              /\ w.calls[k].hasPrevious = (sub.callback.arity = 2)
                              /\ w.calls[k].hasPrevious => w.calls[k].previous = atoms[a]._value
  /\ \A initialValue \in {Num(0), Num(1)} :
       LET w == newAtom(World, Fresh, initialValue, "k", NoMemo)
       IN  /\ w.atoms[Fresh]._value = initialValue
           /\ w.calls = <<>>
           /\ w.microtasks = Append(microtasks, [kind |-> "hydrate", atom |-> Fresh,
                                                 raw |-> storage["k"], resetValue |-> FALSE])

\* C31: when a store is destroyed the subscriber sets of the atoms it owns are
\* cleared: no callback stays subscribed on an atom of a destroyed store, and
\* no later assignment to such an atom invokes a callback.
C31_DestroyClearsOwnAtoms ==
  \A i \in 1..Len(insts) :
    insts[i].destroyed =>
      \A a \in OwnAtoms(i) :
        /\ atoms[a].subscribers = <<>>
        /\ \A w \in Assignments : \A k \in 1..Len(w.calls) : w.calls[k].atom # a

\* the atoms whose hydration is the next suspended function to resume
Hydrating ==
  IF microtasks # <<>> /\ Head(microtasks).kind = "hydrate"
  THEN {Head(microtasks).atom} ELSE {}

\* C32: a value assigned to a persisted atom after its construction and before
\* its hydration completes is not lost: when the hydration has completed the
\* atom holds the assigned value, and the storage entry is the assigned value
\* (when it is one the setter persists and the write is made).
C32_AssignmentSurvivesHydration ==
  \A a \in Hydrating : \A v \in InputValues("x") :
    LET w1 == setValue(World, a, v)
        w2 == Settle(catch(w1))
    IN  ~ComparatorEqual(atoms[a], v) =>
          /\ w2.atoms[a]._value = v
          /\ (v # Undefined /\ adapter = "works") =>
               w2.storage[atoms[a].persistence] = stringify(v)

\* C33: distinct store classes resolve to distinct identities and instances,
\* in whatever order they are first resolved and also when one class extends
\* another: the definition of a class names that class, two classes never
\* share a storeId, Container.get(B) returns an instance of B, and every
\* record of the registry holds an instance of the class it was resolved for.
C33_OneIdentityPerClass ==
  /\ \A store \in Constructables \ Cyclic :
       LET definition == getStoreDefinition(World, store).ret
           w == get(World, store)
       IN  /\ definition.storeClass = store
           /\ \A other \in Constructables \ (Cyclic \cup {store}) :
                getStoreDefinition(World, other).ret.storeId # definition.storeId
           /\ w.insts[w.ret].cls = store
  /\ \A store \in Constructables \ Cyclic :
       LET id == getStoreDefinition(World, store).ret.storeId
       IN  id \in DOMAIN stores => insts[stores[id].instance].cls = store

\* the registry as the claims read it: the refCount of every record
RefCounts(w) == [id \in DOMAIN w.stores |-> w.stores[id].refCount]

\* C34: references acquired through inject are balanced: a store that is
\* constructed and then destroyed leaves the refCount of every store it
\* injected (also of a class it injected more than once) at the value it had
\* before the construction, and a store it alone referenced leaves no record.
C34_InjectIsBalanced ==
  \A store \in Classes \cup {"Twice"} :
    store \notin DOMAIN stores =>
      LET w1 == get(World, store)
          w2 == remove(w1, store, 0)
      IN  /\ w1.insts[w1.ret].cls = store
          /\ w1.ret \in DestroyedBy(w2)
          /\ RefCounts(w2) = RefCounts(World)

\* the Container.remove calls the record `log` holds that instance i made for class c
ReleasesBy(log, i, c) == {k \in 1..Len(log) : log[k].by = i /\ log[k].cls = c}

\* C35: Store.destroy is idempotent: when the public destroy() of an instance
\* is invoked twice, the instance calls Container.remove at most once in total
\* for each store it injected, and the second invocation leaves every refCount
\* of the registry as the first one left it.
C35_DestroyIsIdempotent ==
  \A i \in 1..Len(insts) :
    ~insts[i].destroyed =>
      LET w1 == destroy(World, i)
          w2 == destroy(w1, i)
      IN  /\ \A c \in Constructables : Cardinality(ReleasesBy(w2.removeCalls, i, c)) <= 1
          /\ RefCounts(w2) = RefCounts(w1)

\* the last call of the record `log` made to the subscription subId
LastCallTo(log, subId) ==
  CHOOSE k \in CallsTo(log, subId) : \A j \in CallsTo(log, subId) : j <= k

\* C36: when a subscriber assigns the atom from inside its callback, then once
\* the outermost setter has returned the last notification every subscriber
\* received carries the atom's current value.
C36_LastNotificationIsCurrent ==
  \A a \in StandaloneAtoms : \A v \in InputValues("x") :
    LET w == setValue(World, a, v)
    IN  \A i \in 1..Len(atoms[a].subscribers) :
          LET sub == atoms[a].subscribers[i]
          IN  CallsTo(w.calls, sub.id) # {} =>
                w.calls[LastCallTo(w.calls, sub.id)].value = w.atoms[a]._value

\* C37: for a persisted atom, once the promise returned by reset() with
\* default options has resolved, the storage holds no entry under the
\* persistence key and the value is initialValue, also when the atom is
\* assigned while the storage delete is still pending.
C37_ResetClearsAndRestores ==
  \A a \in StandaloneAtoms :
    microtasks = <<>> =>
      LET w1 == reset(World, a, TRUE, TRUE)
      IN  \A w2 \in {w1} \cup {catch(setValue(w1, a, v)) : v \in InputValues("x")} :
            LET w3 == Settle(w2)
            IN  /\ w3.storage[atoms[a].persistence] = NoItem
                /\ w3.atoms[a]._value = atoms[a]._initialValue

\* the derived atoms of live stores that are computed from the atom a
DerivedFrom(a) ==
  {d \in DerivedAtoms : /\ ~insts[d[1]].destroyed
                        /\ \E j \in 1..Len(SourcesOf(d)) : SourcesOf(d)[j] = a}

\* C38: glitch freedom: whenever a callback registered with watchAtom on a
\* source atom runs because of an assignment to that source, every derived
\* atom computed from that source already holds the value recomputed from the
\* source's new value (assigning it that value would be skipped), whatever
\* the order in which the watcher and the derived atom were registered.
C38_GlitchFree ==
  \A a \in Assignable : \A v \in InputValues(a[2]) :
    LET w == setValue(World, a, v)
    IN  \A k \in 1..Len(w.observed) :
          (w.observed[k].atom = a /\ w.calls[k].callback.kind # "derive") =>
            \A d \in DerivedFrom(a) :
              shouldSkipUpdate(w.observed[k].atoms[d], getDerivedValue(w, SourcesOf(d)))

\* the callbacks a store method hands to this.watchAtom: (value) => {...},
\* which returns or throws
WatchCallbacks(self) ==
  {[kind |-> "watch", owner |-> self, arity |-> 1, throws |-> t, target |-> NoAtom,
    sources |-> <<>>] : t \in BOOLEAN}

\* every subscription on an atom whose callback the store self registered is
\* an entry of the subscription table of self
Tracked(w, self) ==
  \A a \in DOMAIN w.atoms : \A k \in 1..Len(w.atoms[a].subscribers) :
    w.atoms[a].subscribers[k].callback.owner = self =>
      \E j \in 1..Len(w.insts[self].subscriptions) :
        /\ w.insts[self].subscriptions[j].id = w.atoms[a].subscribers[k].id
        /\ w.insts[self].subscriptions[j].atom = a

\* C39: every subscription a store registers on an atom through watchAtom is
\* recorded in the store's subscription table, also when watchAtom is called
\* with immediate = true and the callback throws during the immediate
\* invocation.
C39_EveryWatchIsTracked ==
  \A self \in 1..Len(insts) :
    ~insts[self].destroyed =>
      /\ Tracked(World, self)
      /\ \A a \in DOMAIN atoms : \A callback \in WatchCallbacks(self) :
           \A immediate \in BOOLEAN :
             Tracked(watchAtom(World, self, a, callback, immediate), self)

\* C40: Container.get(S) terminates and returns an instance for every store
\* class whose constructor injects other stores, including when the injection
\* relation contains a cycle: the call does not throw, and it returns the
\* instance of the record the registry then holds for the class.
C40_GetTerminates ==
  \A store \in Cyclic \cup Classes :
    LET w == get(World, store)
        id == getStoreDefinition(World, store).ret.storeId
    IN  /\ ~w.thrown
        /\ id \in DOMAIN w.stores
        /\ w.ret = w.stores[id].instance

====
